---------------------------- MODULE Spec2Model ----------------------------
(***************************************************************************)
(* A model of the Lyman-alpha forest emulator: the Latin hypercube         *)
(* sampling design (latin_hypercube.py), the parameter store and its       *)
(* persisted record (coarse_grid.py, gpemulator.py) and the likelihood and *)
(* sampling driver (likelihood.py).                                        *)
(*                                                                         *)
(* Each component has its own specification (SpecLhs, SpecMaximin,         *)
(* SpecMap, SpecEmu, SpecBuild, SpecLik, SpecSampling, SpecRefine,         *)
(* SpecFlux, SpecCov, SpecDir, SpecAcq); the variables of the other components stay at their *)
(* idle values.                                                            *)
(***************************************************************************)
EXTENDS Integers, Sequences, FiniteSets, TLC

VARIABLES
    \* latin_hypercube.lhscentered
    dims, samples, prior_points, lhs_pc, Hp,
    \* latin_hypercube.maximinlhs
    maxlhs, mm_pc, mm_iter, mm_generated, metric, current, mm_best,
    \* latin_hypercube.map_from_unit_cube / map_to_unit_cube
    map_vec, map_limits, map_orig, map_ops, map_status,
    \* coarse_grid.Emulator, its parameter record on disk, gpemulator.SkLearnGP
    emu, fs, emu_op, emu_err, emu_ops, dumped, written, json_edits,
    gp, gp_file, gp_loaded, ic_call,
    \* likelihood.LikelihoodClass.likelihood
    lik_limits, mf_slope, lik_params, lik_result, emulated, predict_calls, lik_calls,
    \* likelihood.LikelihoodClass.do_sampling
    samp_pc, nwalkers, while_loop, names_written, p0, lnprob0, samp_err,
    burnin_runs, rounds, saved, round_steps, chain, gr, savefile, pos, run_starts,
    \* likelihood.LikelihoodClass.new_parameter_limits / check_for_refinement
    flatchain_attr, ndense_names, npl_args, npl_result,
    cfr_pc, cfr_limits, cfr_first, cfr_prev, cfr_iter, cfr_metric,
    \* flux_power.MySpectra.get_snapshot_list, coarse_grid.Emulator.get_flux_vectors
    snap_dir, snap_result, fv_args, fv_result,
    \* lyman_data.BOSSData and the covariance functions of likelihood.py
    boss, cov_op, cov_result,
    \* Emulator.build_dirname and the directory names of the submissions
    dir_args, dir_result,
    \* the acquisition functions of likelihood.LikelihoodClass
    acq

lhsVars == <<dims, samples, prior_points, lhs_pc, Hp>>
mmVars == <<maxlhs, mm_pc, mm_iter, mm_generated, metric, current, mm_best>>
mapVars == <<map_vec, map_limits, map_orig, map_ops, map_status>>
emuVars == <<emu, fs, emu_op, emu_err, emu_ops, dumped, written, json_edits,
             gp, gp_file, gp_loaded, ic_call>>
likVars == <<lik_limits, mf_slope, lik_params, lik_result, emulated, predict_calls,
             lik_calls>>
sampVars == <<samp_pc, nwalkers, while_loop, names_written, p0, lnprob0, samp_err,
              burnin_runs, rounds, saved, round_steps, chain, gr, savefile, pos,
              run_starts>>
refVars == <<flatchain_attr, ndense_names, npl_args, npl_result,
             cfr_pc, cfr_limits, cfr_first, cfr_prev, cfr_iter, cfr_metric>>
fluxVars == <<snap_dir, snap_result, fv_args, fv_result>>
\* The variables of the components that stand apart from the ones above.
covVars == <<boss, cov_op, cov_result>>
dirVars == <<dir_args, dir_result>>
acqVars == <<acq>>
extraVars == <<fluxVars, covVars, dirVars, acqVars>>
vars == <<lhsVars, mmVars, mapVars, emuVars, likVars, sampVars, refVars, extraVars>>

\* The variables of the other components, for each component.
notLhs == <<mmVars, mapVars, emuVars, likVars, sampVars, refVars, extraVars>>
notMm == <<mapVars, emuVars, likVars, sampVars, refVars, extraVars>>
notMap == <<lhsVars, mmVars, emuVars, likVars, sampVars, refVars, extraVars>>
notEmu == <<lhsVars, mmVars, mapVars, likVars, sampVars, refVars, extraVars>>
notLik == <<lhsVars, mmVars, mapVars, emuVars, refVars, extraVars>>
notRef == <<lhsVars, mmVars, mapVars, emuVars, sampVars, extraVars>>
baseVars == <<lhsVars, mmVars, mapVars, emuVars, likVars, sampVars, refVars>>
notFlux == <<baseVars, covVars, dirVars, acqVars>>
notCov == <<baseVars, fluxVars, dirVars, acqVars>>
notDir == <<baseVars, fluxVars, covVars, acqVars>>
notAcq == <<lhsVars, mmVars, mapVars, emuVars, sampVars, refVars, fluxVars, covVars, dirVars>>

\* The idle values of each component's variables.
IdleLhs ==
    /\ dims = 1 /\ samples = 1 /\ prior_points = <<>> /\ lhs_pc = "idle" /\ Hp = <<>>

IdleMm ==
    /\ maxlhs = 0 /\ mm_pc = "idle" /\ mm_iter = 0 /\ mm_generated = 0
    /\ metric = 0 /\ current = "unbound" /\ mm_best = -1

IdleMap ==
    /\ map_vec = <<>> /\ map_limits = <<>> /\ map_orig = <<>> /\ map_ops = <<>>
    /\ map_status = "idle"

IdleEmu ==
    /\ emu = <<>> /\ fs = <<>> /\ emu_op = "idle" /\ emu_err = "ok" /\ emu_ops = 0
    /\ dumped = <<>> /\ written = <<>> /\ json_edits = 0
    /\ gp = <<>> /\ gp_file = <<>> /\ gp_loaded = <<>> /\ ic_call = <<>>

IdleLik ==
    /\ lik_limits = <<>> /\ mf_slope = FALSE /\ lik_params = <<>> /\ lik_result = <<>>
    /\ emulated = <<>> /\ predict_calls = 0 /\ lik_calls = 0

IdleSamp ==
    /\ samp_pc = "idle" /\ nwalkers = 0 /\ while_loop = TRUE /\ names_written = FALSE
    /\ p0 = <<>> /\ lnprob0 = <<>>
    /\ samp_err = "ok" /\ burnin_runs = 0 /\ rounds = 0 /\ saved = 0
    /\ round_steps = 0 /\ chain = <<>> /\ gr = <<>> /\ savefile = <<>>
    /\ pos = <<>> /\ run_starts = <<>>

IdleRef ==
    /\ flatchain_attr = <<>> /\ ndense_names = 0 /\ npl_args = <<>> /\ npl_result = <<>>
    /\ cfr_pc = "idle" /\ cfr_limits = <<>> /\ cfr_first = <<>> /\ cfr_prev = <<>>
    /\ cfr_iter = 0 /\ cfr_metric = <<>>

IdleFlux ==
    /\ snap_dir = <<>> /\ snap_result = <<>> /\ fv_args = <<>> /\ fv_result = <<>>

IdleCov == boss = <<>> /\ cov_op = "idle" /\ cov_result = <<>>

IdleDir == dir_args = <<>> /\ dir_result = <<>>

IdleAcq == acq = <<>>

IdleExtra == IdleFlux /\ IdleCov /\ IdleDir /\ IdleAcq

IdleNotLhs == IdleMm /\ IdleMap /\ IdleEmu /\ IdleLik /\ IdleSamp /\ IdleRef /\ IdleExtra
IdleNotMm == IdleMap /\ IdleEmu /\ IdleLik /\ IdleSamp /\ IdleRef /\ IdleExtra
IdleNotMap == IdleLhs /\ IdleMm /\ IdleEmu /\ IdleLik /\ IdleSamp /\ IdleRef /\ IdleExtra
IdleNotEmu == IdleLhs /\ IdleMm /\ IdleMap /\ IdleLik /\ IdleSamp /\ IdleRef /\ IdleExtra
IdleNotLik == IdleLhs /\ IdleMm /\ IdleMap /\ IdleEmu /\ IdleRef /\ IdleExtra
IdleNotRef == IdleLhs /\ IdleMm /\ IdleMap /\ IdleEmu /\ IdleSamp /\ IdleExtra
IdleBase == IdleLhs /\ IdleMm /\ IdleMap /\ IdleEmu /\ IdleLik /\ IdleSamp /\ IdleRef
IdleNotFlux == IdleBase /\ IdleCov /\ IdleDir /\ IdleAcq
IdleNotCov == IdleBase /\ IdleFlux /\ IdleDir /\ IdleAcq
IdleNotDir == IdleBase /\ IdleFlux /\ IdleCov /\ IdleAcq

-----------------------------------------------------------------------------
(* Generic helpers *)

Range(s) == {s[i] : i \in DOMAIN s}

AbsVal(x) == IF x < 0 THEN -x ELSE x

\* A faulty draw: each entry drawn independently, so values can repeat.
permutation_with_repeats(s) == [1..Len(s) -> Range(s)]

\* np.random.permutation(new_center): every ordering can be drawn.
permutation(s) ==
    {p \in [1..Len(s) -> Range(s)] : \A i, j \in 1..Len(s) : i # j => p[i] # p[j]}

\* Exact fractions <<numerator, denominator>> in lowest terms, denominator > 0:
\* the real numbers the floating-point code computes with, without its rounding.
RECURSIVE Gcd(_, _)
Gcd(a, b) == IF b = 0 THEN a ELSE Gcd(b, a % b)

Frac(a, b) ==
    LET s == IF b < 0 THEN -1 ELSE 1
        g == Gcd(AbsVal(a), AbsVal(b))
    IN <<(s * a) \div g, (s * b) \div g>>

\* Sums are taken over the least common denominator, which keeps the integers small.
Lcd(x, y) == (x[2] \div Gcd(x[2], y[2])) * y[2]
FAdd(x, y) == Frac(x[1] * (Lcd(x, y) \div x[2]) + y[1] * (Lcd(x, y) \div y[2]), Lcd(x, y))
FSub(x, y) == Frac(x[1] * (Lcd(x, y) \div x[2]) - y[1] * (Lcd(x, y) \div y[2]), Lcd(x, y))
FMul(x, y) == Frac(x[1] * y[1], x[2] * y[2])
FDiv(x, y) == Frac(x[1] * y[2], x[2] * y[1])
FLt(x, y) == x[1] * y[2] < y[1] * x[2]
FLe(x, y) == x[1] * y[2] <= y[1] * x[2]
FInt(k) == <<k, 1>>

IsPrefix(s, t) == Len(s) <= Len(t) /\ \A i \in 1..Len(s) : s[i] = t[i]

-----------------------------------------------------------------------------
(* latin_hypercube.lhscentered                                              *)
(*                                                                          *)
(* A coordinate of a design with `s` samples is held as an integer v that   *)
(* stands for v / (4*s): the cell boundaries cut = linspace(0, 1, s+1) are  *)
(* the multiples of 4, the bin midpoints (a+b)/2 are 4*i + 2.               *)

MaxSamples == 3
DimsSet == {1, 2}
PriorCounts == {0, 1, 2}

Unit(s) == 4 * s

\* _center = (cut[:samples] + cut[1:samples+1]) / 2, as a sequence of length s.
Center(s) == [i \in 1..s |-> 4 * (i - 1) + 2]

\* np.argmin(np.abs(center - pp)) with the last of several minima: a slip in the tie rule.
ArgMinLast(center, pp) ==
    CHOOSE i \in 1..Len(center) :
        /\ \A k \in 1..Len(center) : AbsVal(center[i] - pp) <= AbsVal(center[k] - pp)
        /\ \A k \in 1..Len(center) :
              AbsVal(center[k] - pp) = AbsVal(center[i] - pp) => k <= i

\* np.argmin(np.abs(center - pp)): the first index of the minimum (1-based here).
ArgMin(center, pp) ==
    CHOOSE i \in 1..Len(center) :
        /\ \A k \in 1..Len(center) : AbsVal(center[i] - pp) <= AbsVal(center[k] - pp)
        /\ \A k \in 1..Len(center) :
              AbsVal(center[k] - pp) = AbsVal(center[i] - pp) => i <= k

\* The increasing sequence of the elements of a set of integers (np.setdiff1d sorts).
RECURSIVE SortedSeq(_)
SortedSeq(S) ==
    IF S = {} THEN <<>>
    ELSE LET m == CHOOSE x \in S : \A y \in S : x <= y
         IN <<m>> \o SortedSeq(S \ {m})

\* remove_single_parameter without its assertion on the size of new_center.
remove_single_parameter_unchecked(center, col) ==
    LET already_taken == {ArgMin(center, col[k]) : k \in 1..Len(col)}
        not_taken == SortedSeq((1..Len(center)) \ already_taken)
        new_center == [k \in 1..Len(center) - Len(col) |-> center[not_taken[k]]]
    IN [ok |-> TRUE, new_center |-> new_center]

\* remove_single_parameter(center, prior_points[:, j]); col is the prior column.
\* ok is FALSE when the assertion on the size of new_center fails.
remove_single_parameter(center, col) ==
    LET already_taken == {ArgMin(center, col[k]) : k \in 1..Len(col)}
        not_taken == SortedSeq((1..Len(center)) \ already_taken)
        new_center == [k \in 1..Len(not_taken) |-> center[not_taken[k]]]
    IN [ok |-> Len(new_center) = Len(center) - Len(col), new_center |-> new_center]

Column(rows, j) == [k \in 1..Len(rows) |-> rows[k][j]]

\* new_center for column j of lhscentered.
NewCenter(n, s, prior, j) ==
    IF Len(prior) > 0 THEN remove_single_parameter(Center(s), Column(prior, j))
    ELSE [ok |-> TRUE, new_center |-> Center(s)]

\* np.vstack((prior_points, H))
VStack(prior, H) == prior \o H

\* Every result lhscentered(n, s, prior_points = prior) can have.
lhscentered(n, s, prior) ==
    LET npriors == Len(prior)
        new_samples == s - npriors
    IN IF ~(s > npriors) THEN {[status |-> "AssertionError", Hp |-> <<>>]}
       ELSE IF \E j \in 1..n : ~NewCenter(n, s, prior, j).ok
            THEN {[status |-> "AssertionError", Hp |-> <<>>]}
       ELSE {[status |-> "returned",
              Hp |-> VStack(prior, [r \in 1..new_samples |-> [j \in 1..n |-> perm[j][r]]])] :
                perm \in {q \in [1..n -> UNION {permutation(NewCenter(n, s, prior, j).new_center)
                                                    : j \in 1..n}] :
                            \A j \in 1..n :
                                q[j] \in permutation(NewCenter(n, s, prior, j).new_center)}}


\* The prior designs lhscentered is tried on: rows of any grid values, on a
\* midpoint, on a cell boundary or anywhere between.
PriorDesigns(n, s) ==
    UNION {[1..p -> [1..n -> 0..Unit(s)]] : p \in PriorCounts}

InitLhs ==
    /\ dims \in DimsSet
    /\ samples \in 1..MaxSamples
    /\ prior_points \in PriorDesigns(dims, samples)
    /\ lhs_pc = "start"
    /\ Hp = <<>>
    /\ IdleNotLhs

\* One call of lhscentered(dims, samples, prior_points).
LhsCentered ==
    /\ lhs_pc = "start"
    /\ \E r \in lhscentered(dims, samples, prior_points) :
          /\ lhs_pc' = r.status
          /\ Hp' = r.Hp
    /\ UNCHANGED <<dims, samples, prior_points, notLhs>>

NextLhs == LhsCentered

SpecLhs == InitLhs /\ [][NextLhs]_vars

\* The cell of the s-cell grid that holds v: cell i is ((i-1)/s, i/s], and 0 is
\* in cell 1. A point on a boundary counts in the lower cell.
CellOf(v, s) ==
    IF v = 0 THEN 1 ELSE CHOOSE i \in 1..s : 4 * (i - 1) < v /\ v <= 4 * i

HasShape(H, rows, cols) ==
    Len(H) = rows /\ \A r \in 1..rows : DOMAIN H[r] = 1..cols

OnePerCell(H, n, s) ==
    \A j \in 1..n : \A c \in 1..s :
        Cardinality({r \in 1..Len(H) : CellOf(H[r][j], s) = c}) = 1

SameCellPriors(prior, n, s) ==
    \E j \in 1..n : \E a, b \in 1..Len(prior) :
        a # b /\ CellOf(prior[a][j], s) = CellOf(prior[b][j], s)

OffCentrePrior(prior, n) ==
    \E j \in 1..n : \E a \in 1..Len(prior) : prior[a][j] % 4 # 2

\* C1: without prior points lhscentered always returns, the design has shape
\* (samples, dims), every column is a permutation of the samples bin midpoints
\* (i + 0.5) / samples, and every cell holds exactly one point in every column.
C1_CentredDesign ==
    (lhs_pc # "start" /\ prior_points = <<>>) =>
        /\ lhs_pc = "returned"
        /\ HasShape(Hp, samples, dims)
        /\ \A j \in 1..dims : Range(Column(Hp, j)) = Range(Center(samples))
        /\ OnePerCell(Hp, dims, samples)

C1_Witness ==
    /\ lhs_pc = "returned" /\ prior_points = <<>>
    /\ samples = MaxSamples /\ dims = 2
    /\ Hp[1] = <<Center(samples)[2], Center(samples)[samples]>>

C3_Original ==
    (lhs_pc # "start" /\ Len(prior_points) > 0
        /\ (OffCentrePrior(prior_points, dims)
                \/ SameCellPriors(prior_points, dims, samples)))
    => lhs_pc = "AssertionError"

\* C3 amended: lhscentered fails (AssertionError, no design) exactly when
\* samples <= p or two prior points lie in the same cell of the samples-cell grid
\* in some dimension; prior points off the bin midpoints are accepted.
C3_FailsOnSharedCell ==
    lhs_pc # "start" =>
        /\ lhs_pc = "AssertionError" <=>
              (samples <= Len(prior_points)
                  \/ SameCellPriors(prior_points, dims, samples))
        /\ lhs_pc = "AssertionError" => Hp = <<>>

C3_Witness ==
    /\ lhs_pc = "AssertionError" /\ Len(prior_points) = 2 /\ samples = 3
    /\ ~OffCentrePrior(prior_points, dims)


-----------------------------------------------------------------------------
(* latin_hypercube.maximinlhs                                               *)

\* group = 1000: the number of designs drawn and scored per pass of the loop.
Group == 1000

\* The values of maxlhs the loop is run with (10000 is the default).
MaxLhsSet == {1, 999, 1000, 1999, 2000, 10000}

Min(S) == CHOOSE x \in S : \A y \in S : x <= y

RECURSIVE SumSeq(_)
SumSeq(s) == IF s = <<>> THEN 0 ELSE Head(s) + SumSeq(Tail(s))

\* np.sum((lhs[b] - lhs[a])**2): the squared distance of two rows.
DistSq(lhs, a, b) ==
    SumSeq([k \in 1..Len(lhs[a]) |-> (lhs[b][k] - lhs[a][k]) * (lhs[b][k] - lhs[a][k])])

\* _default_metric_func(lhs) squared: the sum, over all rows but the last, of the
\* squared distance to the closest later row, in units of 1 / (4 * samples)^2. The
\* code returns its square root, which orders designs the same way and is 0 when
\* this is 0.
default_metric_sq(lhs) ==
    SumSeq([i \in 1..Len(lhs) - 1 |->
                Min({DistSq(lhs, i, a) : a \in (i + 1)..Len(lhs)})])

InitMaximin ==
    /\ dims \in DimsSet
    /\ samples \in 1..MaxSamples
    /\ prior_points \in {<<>>, <<[j \in 1..dims |-> 2]>>}
    /\ lhs_pc = "idle"
    /\ Hp = <<>>
    /\ maxlhs \in MaxLhsSet
    /\ mm_pc = "loop"
    /\ mm_iter = 0
    /\ mm_generated = 0
    /\ metric = 0
    /\ current = "unbound"
    /\ mm_best = -1
    /\ IdleNotMm

\* One pass of the loop: Group designs are drawn and scored, and the best of them
\* replaces current when it beats metric. Any design lhscentered can return can be
\* the best of its group; r is that design.
MaximinBatch ==
    /\ mm_pc = "loop"
    /\ mm_iter < maxlhs \div Group
    /\ \E r \in lhscentered(dims, samples, prior_points) :
          IF r.status = "AssertionError"
          THEN /\ mm_pc' = "AssertionError"
               /\ UNCHANGED <<mm_iter, mm_generated, metric, current, mm_best>>
          ELSE LET new_metric == default_metric_sq(r.Hp)
               IN /\ mm_iter' = mm_iter + 1
                  /\ mm_generated' = mm_generated + Group
                  /\ mm_best' = IF new_metric > mm_best THEN new_metric ELSE mm_best
                  /\ IF new_metric > metric
                     THEN metric' = new_metric /\ current' = r.Hp
                     ELSE UNCHANGED <<metric, current>>
                  /\ UNCHANGED mm_pc
    /\ UNCHANGED <<lhsVars, maxlhs, notMm>>

\* return current, metric: current is unbound when no pass assigned it.
MaximinReturn ==
    /\ mm_pc = "loop"
    /\ mm_iter = maxlhs \div Group
    /\ mm_pc' = IF current = "unbound" THEN "UnboundLocalError" ELSE "returned"
    /\ UNCHANGED <<lhsVars, maxlhs, mm_iter, mm_generated, metric, current, mm_best, notMm>>

NextMaximin == MaximinBatch \/ MaximinReturn

SpecMaximin == InitMaximin /\ [][NextMaximin]_vars

\* C4: maximinlhs with maxlhs = trials ends by returning, having generated
\* exactly trials candidate designs, the candidate whose score is the maximum
\* over all generated candidates, together with that score.
C4_Original ==
    mm_pc \in {"returned", "UnboundLocalError"} =>
        /\ mm_pc = "returned"
        /\ mm_generated = maxlhs
        /\ metric = mm_best
        /\ default_metric_sq(current) = mm_best


-----------------------------------------------------------------------------
(* latin_hypercube.map_from_unit_cube and map_to_unit_cube                  *)
(*                                                                          *)
(* param_vec is a sequence of fractions, param_limits a sequence of         *)
(* <<low, high>> pairs of fractions.                                        *)

MapDen == 4
MaxMapOps == 2

\* The coordinates tried: the multiples of 1 / MapDen in [-1, 3].
MapValues == {Frac(k, MapDen) : k \in (-MapDen)..(3 * MapDen)}

\* The rows of param_limits tried; <<1, 1>> is an empty range.
LimitRows == {<<FInt(0), FInt(1)>>, <<FInt(0), FInt(2)>>, <<FInt(-1), FInt(1)>>,
              <<FInt(1), FInt(3)>>, <<FInt(1), FInt(1)>>}

\* map_from_unit_cube(param_vec, param_limits): the new vector, or the failure of
\* one of its assertions.
map_from_unit_cube(param_vec, param_limits) ==
    LET n == Len(param_vec)
        new_params == [i \in 1..n |->
            FAdd(param_limits[i][1],
                 FMul(param_vec[i], FSub(param_limits[i][2], param_limits[i][1])))]
    IN IF Len(param_limits) # n THEN [status |-> "AssertionError", vec |-> param_vec]
       ELSE IF ~(\A i \in 1..n : FLe(FInt(0), param_vec[i]) /\ FLe(param_vec[i], FInt(1)))
            THEN [status |-> "AssertionError", vec |-> param_vec]
       ELSE IF ~(\A i \in 1..n : FLt(param_limits[i][1], param_limits[i][2]))
            THEN [status |-> "AssertionError", vec |-> param_vec]
       ELSE IF ~(\A i \in 1..n : FLt(new_params[i], param_limits[i][2]))
            THEN [status |-> "AssertionError", vec |-> param_vec]
       ELSE IF ~(\A i \in 1..n : FLt(param_limits[i][1], new_params[i]))
            THEN [status |-> "AssertionError", vec |-> param_vec]
       ELSE [status |-> "ok", vec |-> new_params]

\* map_to_unit_cube(param_vec, param_limits)
map_to_unit_cube(param_vec, param_limits) ==
    LET n == Len(param_vec)
        new_params == [i \in 1..n |->
            FDiv(FSub(param_vec[i], param_limits[i][1]),
                 FSub(param_limits[i][2], param_limits[i][1]))]
    IN IF Len(param_limits) # n THEN [status |-> "AssertionError", vec |-> param_vec]
       ELSE IF ~(\A i \in 1..n : FLt(param_vec[i], param_limits[i][2]))
            THEN [status |-> "AssertionError", vec |-> param_vec]
       ELSE IF ~(\A i \in 1..n : FLt(param_limits[i][1], param_vec[i]))
            THEN [status |-> "AssertionError", vec |-> param_vec]
       ELSE IF ~(\A i \in 1..n : FLt(param_limits[i][1], param_limits[i][2]))
            THEN [status |-> "AssertionError", vec |-> param_vec]
       ELSE IF ~(\A i \in 1..n : FLe(FInt(0), new_params[i]) /\ FLe(new_params[i], FInt(1)))
            THEN [status |-> "AssertionError", vec |-> param_vec]
       ELSE [status |-> "ok", vec |-> new_params]

InitMap ==
    /\ \E n, m \in 1..2 :
          /\ map_vec \in [1..n -> MapValues]
          /\ map_limits \in [1..m -> LimitRows]
    /\ map_orig = map_vec
    /\ map_ops = <<>>
    /\ map_status = "ok"
    /\ IdleNotMap

MapFromUnitCube ==
    /\ map_status = "ok"
    /\ Len(map_ops) < MaxMapOps
    /\ LET r == map_from_unit_cube(map_vec, map_limits)
       IN map_status' = r.status /\ map_vec' = r.vec
    /\ map_ops' = Append(map_ops, "from")
    /\ UNCHANGED <<map_limits, map_orig, notMap>>

MapToUnitCube ==
    /\ map_status = "ok"
    /\ Len(map_ops) < MaxMapOps
    /\ LET r == map_to_unit_cube(map_vec, map_limits)
       IN map_status' = r.status /\ map_vec' = r.vec
    /\ map_ops' = Append(map_ops, "to")
    /\ UNCHANGED <<map_limits, map_orig, notMap>>

NextMap == MapFromUnitCube \/ MapToUnitCube

SpecMap == InitMap /\ [][NextMap]_vars

ProperLimits(limits, n) ==
    Len(limits) = n /\ \A i \in 1..n : FLt(limits[i][1], limits[i][2])

InUnitCube(v) == \A i \in 1..Len(v) : FLe(FInt(0), v[i]) /\ FLe(v[i], FInt(1))

StrictlyInside(v, limits) ==
    \A i \in 1..Len(v) : FLt(limits[i][1], v[i]) /\ FLt(v[i], limits[i][2])

\* C5: for limits with low < high in every row, map_from_unit_cube succeeds on
\* every x of the unit cube [0,1]^n and map_to_unit_cube brings the result back
\* to x; map_to_unit_cube succeeds on every y strictly inside the limits and
\* map_from_unit_cube brings the result back to y.
C5_Original ==
    ProperLimits(map_limits, Len(map_orig)) =>
        /\ (InUnitCube(map_orig) /\ map_ops = <<"from">>) => map_status = "ok"
        /\ (InUnitCube(map_orig) /\ map_ops = <<"from", "to">>) =>
                (map_status = "ok" /\ map_vec = map_orig)
        /\ (StrictlyInside(map_orig, map_limits) /\ map_ops = <<"to">>) =>
                map_status = "ok"
        /\ (StrictlyInside(map_orig, map_limits) /\ map_ops = <<"to", "from">>) =>
                (map_status = "ok" /\ map_vec = map_orig)


-----------------------------------------------------------------------------
(* coarse_grid.Emulator: the parameter store and its persisted record       *)
(*                                                                          *)
(* A Python value that can be an array or a list is [kind, data]; the data  *)
(* of sample_params is a sequence of points, a point a sequence of          *)
(* fractions; the data of param_limits a sequence of <<low, high>> pairs.   *)
(* A JSON record holds the bare data: JSON has arrays only.                 *)
(* The model has one simulated parameter.                                   *)

MaxEmuOps == 3
\* The numbers of samples a call asks for.
NSamplesSet == {1, 2}

NpArray(data) == [kind |-> "ndarray", data |-> data]
PyList(data) == [kind |-> "list", data |-> data]

\* ndarray.tolist()
tolist(v) == PyList(v.data)

\* np.array(list)
np_array(v) == NpArray(v.data)

\* The attributes of an Emulator that can hold an array.
ArrayFields == {"param_limits", "kf", "sample_params"}

ParamNames == [ns |-> 0]
KfData == <<1, 2>>
\* self.omegamh2 = 0.1199, in units of 1e-4
OmegaMH2 == 1199

\* The global limits of the one parameter and the regions a refinement is given.
GlobalLimits == <<<<FInt(0), FInt(1)>>>>
NewLimitsSet == {<<<<FInt(0), Frac(1, 2)>>>>, <<<<Frac(1, 4), FInt(1)>>>>}

\* Emulator.__init__(basedir, param_limits = limits): really_arrays is not yet an
\* attribute; it is read only after dump or load has set it.
EmulatorInit(param_limits) ==
    [param_names |-> ParamNames, param_limits |-> param_limits, kf |-> NpArray(KfData),
     mf |-> "mf", omegamh2 |-> OmegaMH2, sample_params |-> PyList(<<>>),
     basedir |-> "basedir", really_arrays |-> {}]

\* The files of basedir: the record emulator_params.json (main) and its backups;
\* slot 0 is <file>.backup, slot r >= 1 is <file>_r<r>.backup.
NoFile == [absent |-> TRUE]
BackupSlots == 0..(MaxEmuOps + 2)

\* A record left by an earlier run; n tells them apart.
OldRecord(n) ==
    [param_names |-> ParamNames, param_limits |-> GlobalLimits, kf |-> KfData,
     mf |-> <<>>, omegamh2 |-> OmegaMH2, sample_params |-> <<<<Frac(n, 8)>>>>,
     basedir |-> "basedir", really_arrays |-> ArrayFields]

\* Emulator._fromarray without the conversion: the lists stay lists.
fromarray_keeps_lists(e) == [e EXCEPT !.really_arrays = {}]

\* Emulator._fromarray
fromarray(e) ==
    [nn \in DOMAIN e |->
        IF nn = "really_arrays" THEN {}
        ELSE IF nn \in e.really_arrays THEN np_array(e[nn])
        ELSE e[nn]]

\* json.dump(self.__dict__, jsout): an ndarray is not serialisable.
json_dump(d) ==
    IF \E nn \in ArrayFields : d[nn].kind = "ndarray" THEN [truncated |-> TRUE]
    ELSE [nn \in DOMAIN d |-> IF nn \in ArrayFields THEN d[nn].data ELSE d[nn]]

\* json.load(jsin): every JSON array is a list.
json_load(rec) ==
    [nn \in DOMAIN rec |-> IF nn \in ArrayFields THEN PyList(rec[nn]) ELSE rec[nn]]

\* The backup the while loop of dump ends on, always <file>.backup: a slip that
\* overwrites an existing backup.
first_backup_always(files) == 0

\* The backup name the while loop of dump ends on: the first that does not exist.
first_free_backup(files) ==
    CHOOSE r \in BackupSlots :
        /\ files.backups[r] = NoFile
        /\ \A q \in BackupSlots : q < r => files.backups[q] # NoFile

\* Emulator.dump(): the emulator and the files after it.
dump(e, files) ==
    LET moved == IF files.main # NoFile
                 THEN [main |-> NoFile,
                       backups |-> [files.backups EXCEPT
                                        ![first_free_backup(files)] = files.main]]
                 ELSE files
        arrays == {nn \in ArrayFields : e[nn].kind = "ndarray"}
        aslists == [nn \in DOMAIN e |->
                        IF nn = "really_arrays" THEN arrays
                        ELSE IF nn = "mf" THEN <<>>
                        ELSE IF nn \in arrays THEN tolist(e[nn])
                        ELSE e[nn]]
    IN [emu |-> [fromarray(aslists) EXCEPT !.mf = e.mf],
        fs |-> [moved EXCEPT !.main = json_dump(aslists)]]

\* Emulator.load(): the emulator after it; the file exists.
load(e, files) ==
    [fromarray(json_load(files.main)) EXCEPT
        !.kf = e.kf, !.mf = e.mf, !.basedir = e.basedir]

\* The cell of the s-cell grid on [0, 1] whose midpoint is nearest to x (the lower
\* of two equally near).
NearestBin(x, s) ==
    IF x = FInt(0) THEN 1
    ELSE CHOOSE i \in 1..s : FLt(Frac(i - 1, s), x) /\ FLe(x, Frac(i, s))

\* latin_hypercube.get_hypercube_samples(limits, nsamples, prior_points): the
\* centred Latin hypercube of nsamples points on limits that keeps the prior
\* points as its first rows (any of the designs the best-of-many draw can pick).
get_hypercube_samples(limits, nsamples, prior) ==
    LET n == Len(limits)
        p == Len(prior)
        unit == [k \in 1..p |-> map_to_unit_cube(prior[k], limits).vec]
        taken(j) == {NearestBin(unit[k][j], nsamples) : k \in 1..p}
        free(j) == SortedSeq((1..nsamples) \ taken(j))
        mid(j) == [k \in 1..Len(free(j)) |-> Frac(2 * free(j)[k] - 1, 2 * nsamples)]
    IN IF ~(nsamples > p) THEN {[status |-> "AssertionError", design |-> <<>>]}
       ELSE IF \E j \in 1..n : Cardinality(taken(j)) # p
            THEN {[status |-> "AssertionError", design |-> <<>>]}
       ELSE {[status |-> "ok",
              design |-> prior \o
                  [r \in 1..(nsamples - p) |->
                      map_from_unit_cube([j \in 1..n |-> perm[j][r]], limits).vec]] :
                perm \in {q \in [1..n -> UNION {permutation(mid(j)) : j \in 1..n}] :
                            \A j \in 1..n : q[j] \in permutation(mid(j))}}

\* The held points strictly inside limits, in their order (np.where, then indexing).
RECURSIVE PointsInside(_, _)
PointsInside(points, limits) ==
    IF points = <<>> THEN <<>>
    ELSE LET rest == PointsInside(Tail(points), limits)
         IN IF StrictlyInside(Head(points), limits) THEN <<Head(points)>> \o rest
            ELSE rest

\* The prior_points build_params passes on: None (no rows) unless use_existing,
\* then self.sample_params[ii].
existing_points(e, limits, use_existing) ==
    IF use_existing THEN PointsInside(e.sample_params.data, limits) ELSE <<>>

\* Emulator.build_params(nsamples, limits, use_existing): every result it can have.
build_params(e, nsamples, limits, use_existing) ==
    IF use_existing /\ e.sample_params.kind # "ndarray"
    THEN {[status |-> "TypeError", design |-> <<>>]}
    ELSE get_hypercube_samples(limits, nsamples, existing_points(e, limits, use_existing))

\* What a call handed on: the region and the prior_points build_params was
\* given, the design it obtained, and the points _do_ic_generation was run for.
NoCall == [limits |-> <<>>, prior |-> <<>>, design |-> <<>>, ran |-> <<>>]

\* The default of the argument samples of gen_simulations (called given below).
None == [none |-> TRUE]

\* np.vstack([samples, sample_params]): the new rows first, a slip.
vstack_new_first(a, b) == NpArray(b.data \o a.data)

\* np.vstack([sample_params, samples])
vstack(a, b) == NpArray(a.data \o b.data)

\* Emulator.gen_simulations(nsamples, samples): every result it can have. ic_ok
\* is the outcome of _do_ic_generation, which writes the simulation directories;
\* snap is the emulator as dump() found it.
gen_simulations(e, files, nsamples, given, ic_ok) ==
    LET firsts == IF Len(e.sample_params.data) = 0
                  THEN {[e EXCEPT !.sample_params = NpArray(b.design)] :
                            b \in build_params(e, nsamples, e.param_limits.data, FALSE)}
                  ELSE {e}
        result(e1) ==
            LET smp == IF given = None THEN e1.sample_params ELSE given
                e2 == [e1 EXCEPT !.sample_params = vstack(e1.sample_params, smp)]
                d == dump(e2, files)
            IN IF ic_ok
               THEN [emu |-> d.emu, fs |-> d.fs, err |-> "ok", wrote |-> TRUE, snap |-> e2,
                     call |-> [NoCall EXCEPT !.ran = smp.data]]
               ELSE [emu |-> e1, fs |-> files, err |-> "OSError", wrote |-> FALSE,
                     snap |-> e1, call |-> NoCall]
    IN {result(e1) : e1 \in firsts}

\* LikelihoodClass.refinement(nsamples): every result it can have; new_limits is
\* what new_parameter_limits returns.
refinement(e, files, nsamples, new_limits, ic_ok) ==
    UNION {IF b.status # "ok"
           THEN {[emu |-> e, fs |-> files, err |-> b.status, wrote |-> FALSE, snap |-> e,
                  call |-> NoCall]}
           ELSE IF Len(b.design) # nsamples
           THEN {[emu |-> e, fs |-> files, err |-> "AssertionError", wrote |-> FALSE,
                  snap |-> e, call |-> NoCall]}
           ELSE {[r EXCEPT !.call = [limits |-> new_limits,
                                     prior |-> existing_points(e, new_limits, TRUE),
                                     design |-> b.design,
                                     ran |-> r.call.ran]] :
                    r \in gen_simulations(e, files, nsamples, NpArray(b.design), ic_ok)} :
           b \in build_params(e, nsamples, new_limits, TRUE)}

\* omegamh2 = 0.1327, the default of generate_emulator_submissions, in units of 1e-4
SubmissionOmegaMH2 == 1327

\* The record of default_files_directory that a first submission copies.
DefaultJson == OldRecord(7)

\* generate_emulator_submissions(emulator_directory, simulation_parameters,
\* parameter_limits, refinement = refinement): the files after it. dirs_ok is the
\* outcome of the loop that makes the simulation directories.
generate_emulator_submissions(files, simulation_parameters, parameter_limits, is_refinement, dirs_ok) ==
    LET copied == IF is_refinement THEN files ELSE [files EXCEPT !.main = DefaultJson]
        json_dictionary == copied.main
        edited == [json_dictionary EXCEPT
                      !.param_limits = tolist(parameter_limits).data,
                      !.omegamh2 = SubmissionOmegaMH2,
                      !.sample_params =
                          IF is_refinement
                          THEN json_dictionary.sample_params \o
                                   tolist(simulation_parameters).data
                          ELSE tolist(simulation_parameters).data,
                      !.basedir = "basedir"]
    IN IF ~dirs_ok THEN [fs |-> files, err |-> "OSError"]
       ELSE IF copied.main = NoFile THEN [fs |-> files, err |-> "FileNotFoundError"]
       ELSE [fs |-> [copied EXCEPT !.main = edited], err |-> "ok"]

\* make_emulator_latin_hypercube(emulator_directory, n_simulations,
\* parameter_limits, prior_points = prior_points, refinement = refinement): every
\* result it can have.  has_prior tells an array of prior_points from None.
make_emulator_latin_hypercube(files, n_simulations, parameter_limits, has_prior, prior, is_refinement, dirs_ok) ==
    UNION {IF b.status # "ok" THEN {[fs |-> files, err |-> b.status]}
           ELSE IF is_refinement /\ ~has_prior THEN {[fs |-> files, err |-> "AttributeError"]}
           ELSE {generate_emulator_submissions(files,
                    NpArray(IF is_refinement
                            THEN SubSeq(b.design, Len(prior) + 1, Len(b.design))
                            ELSE b.design),
                    parameter_limits, is_refinement, dirs_ok)} :
           b \in get_hypercube_samples(parameter_limits.data, n_simulations,
                                       IF has_prior THEN prior ELSE <<>>)}

\* The regions a submission is made for: the global limits, or a refined region.
SubmissionLimits == {GlobalLimits} \cup NewLimitsSet

\* The points a submission is given.
SubmissionSamples ==
    {NpArray(<<<<Frac(1, 2)>>>>), NpArray(<<<<Frac(1, 4)>>, <<Frac(3, 4)>>>>)}

\* The training data of a SkLearnGP: params and flux_vectors.
GpParams == {NpArray(<<<<Frac(1, 2)>>>>), NpArray(<<<<Frac(1, 4)>>, <<Frac(3, 4)>>>>)}
GpFluxVectors(params) ==
    {NpArray([k \in 1..Len(params.data) |-> <<f, f + k>>]) : f \in {1}}

InitEmu ==
    /\ IdleNotEmu
    /\ emu = EmulatorInit(NpArray(GlobalLimits))
    /\ \E nbackups \in {0, 2} :
        \E main \in {NoFile, OldRecord(1)} :
            fs = [main |-> main,
                  backups |-> [r \in BackupSlots |->
                                  IF r < nbackups THEN OldRecord(r + 2) ELSE NoFile]]
    /\ emu_op = "init"
    /\ emu_err = "ok"
    /\ emu_ops = 0
    /\ dumped = [valid |-> FALSE]
    /\ written = <<>>
    /\ json_edits = 0
    /\ gp = <<>>
    /\ gp_file = <<>>
    /\ gp_loaded = <<>>
    /\ ic_call = NoCall

EmuStep(op, err) ==
    /\ emu_ops < MaxEmuOps
    /\ emu_ops' = emu_ops + 1
    /\ emu_op' = op
    /\ emu_err' = err

\* The emulator, the files and the record of the dump after a call that ends in
\* dump() when it succeeds.
EmuResult(op, res) ==
    /\ EmuStep(op, res.err)
    /\ emu' = res.emu
    /\ fs' = res.fs
    /\ dumped' = IF res.wrote THEN [valid |-> TRUE, snap |-> res.snap] ELSE dumped
    /\ written' = IF res.wrote THEN Append(written, res.fs.main) ELSE written
    /\ ic_call' = res.call
    /\ UNCHANGED <<json_edits, gp, gp_file, gp_loaded>>
    /\ UNCHANGED notEmu

\* A new Emulator object on the same basedir.
NewEmulator ==
    /\ EmuStep("new", "ok")
    /\ emu' = EmulatorInit(NpArray(GlobalLimits))
    /\ UNCHANGED <<fs, dumped, written, json_edits, gp, gp_file, gp_loaded, ic_call>>
    /\ UNCHANGED notEmu

Dump ==
    /\ emu_ops < MaxEmuOps
    /\ LET d == dump(emu, fs)
       IN EmuResult("dump", [emu |-> d.emu, fs |-> d.fs, err |-> "ok", wrote |-> TRUE,
                             snap |-> emu, call |-> ic_call])

Load ==
    /\ IF fs.main = NoFile
       THEN EmuStep("load", "FileNotFoundError") /\ emu' = emu
       ELSE EmuStep("load", "ok") /\ emu' = load(emu, fs)
    /\ UNCHANGED <<fs, dumped, written, json_edits, gp, gp_file, gp_loaded, ic_call>>
    /\ UNCHANGED notEmu

GenSimulations ==
    \E nsamples \in NSamplesSet, ic_ok \in BOOLEAN :
        \E res \in gen_simulations(emu, fs, nsamples, None, ic_ok) :
            EmuResult("gen_simulations", res)

Refinement ==
    \E nsamples \in NSamplesSet, new_limits \in NewLimitsSet, ic_ok \in BOOLEAN :
        \E res \in refinement(emu, fs, nsamples, new_limits, ic_ok) :
            EmuResult("refinement", res)

\* The state after a call that edits the record of the directory.
SubmissionResult(is_refinement, res) ==
    /\ EmuStep(IF is_refinement THEN "submissions_refinement" ELSE "submissions", res.err)
    /\ fs' = res.fs
    /\ json_edits' = IF res.err = "ok" THEN json_edits + 1 ELSE json_edits
    /\ dumped' = IF res.err = "ok" THEN [valid |-> FALSE] ELSE dumped
    /\ UNCHANGED <<emu, written, gp, gp_file, gp_loaded, ic_call>>
    /\ UNCHANGED notEmu

Submissions ==
    \E is_refinement \in BOOLEAN, sims \in SubmissionSamples, dirs_ok \in BOOLEAN :
        \E res \in {generate_emulator_submissions(fs, sims, NpArray(GlobalLimits),
                                                   is_refinement, dirs_ok)} :
            SubmissionResult(is_refinement, res)

\* A call of make_emulator_latin_hypercube: a first build on the global limits,
\* or a refinement on a region with the points of the record inside it as
\* prior_points (or with none given).
MakeLatinHypercube ==
    \E is_refinement \in BOOLEAN, n_simulations \in NSamplesSet :
        \E parameter_limits \in IF is_refinement THEN SubmissionLimits ELSE {GlobalLimits},
           has_prior \in IF is_refinement THEN BOOLEAN ELSE {FALSE} :
            LET prior == IF has_prior /\ fs.main # NoFile
                         THEN PointsInside(fs.main.sample_params, parameter_limits)
                         ELSE <<>>
            IN \E res \in make_emulator_latin_hypercube(fs, n_simulations,
                              NpArray(parameter_limits), has_prior, prior, is_refinement,
                              TRUE) :
                  SubmissionResult(is_refinement, res)

\* SkLearnGP(params, kf, flux_vectors, savedir): the constructor ends in dump.
GpDump ==
    \E params \in GpParams :
        \E flux_vectors \in GpFluxVectors(params) :
            /\ EmuStep("gp_dump", "ok")
            /\ gp' = [params |-> params, flux_vectors |-> flux_vectors]
            /\ gp_file' = <<tolist(params).data, tolist(flux_vectors).data>>
            /\ UNCHANGED <<emu, fs, dumped, written, json_edits, gp_loaded, ic_call>>
            /\ UNCHANGED notEmu

\* SkLearnGP.load(savedir)
GpLoad ==
    /\ IF gp_file = <<>>
       THEN EmuStep("gp_load", "FileNotFoundError") /\ gp_loaded' = gp_loaded
       ELSE /\ EmuStep("gp_load", "ok")
            /\ gp_loaded' = <<np_array(PyList(gp_file[1])), np_array(PyList(gp_file[2]))>>
    /\ UNCHANGED <<emu, fs, dumped, written, json_edits, gp, gp_file, ic_call>>
    /\ UNCHANGED notEmu

NextEmu ==
    \/ NewEmulator
    \/ Dump
    \/ Load
    \/ GenSimulations
    \/ Refinement
    \/ Submissions
    \/ GpDump
    \/ GpLoad

SpecEmu == InitEmu /\ [][NextEmu]_vars

\* The calls that build and refine the sample set and its record: those of an
\* Emulator object and those of the submission scripts on the same directory.
NextBuild ==
    \/ Load
    \/ GenSimulations
    \/ Refinement
    \/ Submissions
    \/ MakeLatinHypercube

SpecBuild == InitEmu /\ [][NextBuild]_vars

-----------------------------------------------------------------------------
(* Claims about the parameter store *)

\* The files of basedir that exist: the backup slots, and MainName for the record.
MainName == 0 - 1
FileNames(files) ==
    (IF files.main # NoFile THEN {MainName} ELSE {}) \cup
    {r \in BackupSlots : files.backups[r] # NoFile}

FileAt(files, name) == IF name = MainName THEN files.main ELSE files.backups[name]

\* How often rec occurs in the log, and how many files hold it.
TimesWritten(log, rec) == Cardinality({i \in 1..Len(log) : log[i] = rec})
TimesHeld(files, rec) == Cardinality({f \in FileNames(files) : FileAt(files, f) = rec})

\* C6: the sample set is append-only. Over every call of gen_simulations and of
\* refinement the sample_params the emulator held before the call is a same-order
\* prefix of what it holds after it, and the call that succeeds leaves exactly the
\* held sample_params in the persisted record; a successful
\* generate_emulator_submissions(refinement = True) leaves the persisted
\* sample_params it found as a prefix of the persisted sample_params, and one that
\* fails leaves the record as it was.
C6_AppendOnly ==
    [][/\ emu_op' \in {"gen_simulations", "refinement"} =>
            /\ IsPrefix(emu.sample_params.data, emu'.sample_params.data)
            /\ emu_err' = "ok" => fs'.main.sample_params = emu'.sample_params.data
            /\ emu_err' # "ok" => fs' = fs
       /\ emu_op' = "submissions_refinement" =>
            /\ emu' = emu
            /\ emu_err' = "ok" =>
                  IsPrefix(fs.main.sample_params, fs'.main.sample_params)
            /\ emu_err' # "ok" => fs' = fs]_vars

\* A refinement has appended new points to a set that held points already, and
\* the record holds the grown set.
C6_Witness ==
    /\ emu_op = "refinement"
    /\ emu_err = "ok"
    /\ Len(emu.sample_params.data) >= 3
    /\ fs.main.sample_params = emu.sample_params.data

\* C7: every dump that finds a parameter record moves it to the first free name
\* of <file>.backup, <file>_r1.backup, <file>_r2.backup, ...; no dump changes or
\* removes a backup that exists, each dump adds one file to the directory, and
\* while only dumps have written to the directory every record a dump has
\* written is the content of a file of its own.
C7_BackupRotation ==
    [][Len(written') = Len(written) + 1 =>
        /\ fs.main # NoFile =>
              \E r \in BackupSlots :
                  /\ fs.backups[r] = NoFile
                  /\ \A q \in BackupSlots : q < r => fs.backups[q] # NoFile
                  /\ fs'.backups[r] = fs.main
        /\ \A q \in BackupSlots :
              fs.backups[q] # NoFile => fs'.backups[q] = fs.backups[q]
        /\ fs'.main = written'[Len(written')]
        /\ Cardinality(FileNames(fs')) =
              Cardinality(FileNames(fs)) + 1
        /\ json_edits' = 0 =>
              \A i \in 1..Len(written') :
                  TimesWritten(written', written'[i]) <= TimesHeld(fs', written'[i])]_vars

\* Three dumps into a directory that held a record and two backups: the records
\* went to the third, fourth and fifth backup names.
C7_Witness ==
    /\ Len(written) = 3
    /\ json_edits = 0
    /\ fs.backups[2] # NoFile
    /\ fs.backups[3] = written[1]
    /\ fs.backups[4] = written[2]
    /\ fs.main = written[3]

\* C8: a load that reads the record the last dump wrote leaves param_names,
\* param_limits, sample_params and omegamh2 equal to what the dumping emulator
\* held, arrays as arrays and lists as lists; and SkLearnGP.load returns the
\* (params, flux_vectors) that SkLearnGP.dump wrote.
C8_RoundTrip ==
    /\ (emu_op = "load" /\ emu_err = "ok" /\ dumped.valid) =>
          /\ emu.param_names = dumped.snap.param_names
          /\ emu.param_limits = dumped.snap.param_limits
          /\ emu.sample_params = dumped.snap.sample_params
          /\ emu.omegamh2 = dumped.snap.omegamh2
          /\ emu.kf.kind = dumped.snap.kf.kind
    /\ (emu_op = "gp_load" /\ emu_err = "ok") =>
          gp_loaded = <<gp.params, gp.flux_vectors>>

\* A load has read a record with points in it that a dump wrote, after a
\* SkLearnGP wrote its training data.
C8_Witness ==
    /\ emu_op = "load"
    /\ emu_err = "ok"
    /\ dumped.valid
    /\ dumped.snap.sample_params.kind = "ndarray"
    /\ Len(dumped.snap.sample_params.data) > 0
    /\ dumped.snap.param_limits.kind = "ndarray"
    /\ gp_file # <<>>

-----------------------------------------------------------------------------
(* likelihood.LikelihoodClass.likelihood                                    *)
(*                                                                          *)
(* Parameter vectors and limits are exact fractions. What the surrogate and *)
(* the covariance of one redshift bin contribute is the pair <<dcd, hcdet>> *)
(* of the bin: dcd = -diff.icov.diff/2 and hcdet = 0.5*cdet, the half       *)
(* log-determinant; a positive definite covariance gives dcd <= 0 and any   *)
(* finite hcdet. "singular" is a covariance np.linalg.inv rejects.          *)

MaxLikCalls == 2

\* -2**31
Chi2Floor == 0 - 2^30 - 2^30

\* A float: -np.inf or a finite number.
NegInf == [kind |-> "-inf", num |-> 0]
Finite(x) == [kind |-> "finite", num |-> x]

\* np.isfinite
isfinite(x) == x.kind = "finite"

\* The limits of LikelihoodClass: with a mean flux slope the first row is t0_slope.
LikLimitsSet(slope) ==
    IF slope THEN {<<<<Frac(-1, 4), Frac(1, 4)>>, <<Frac(3, 4), Frac(5, 4)>>>>}
    ELSE {<<<<FInt(0), FInt(1)>>>>, <<<<FInt(0), FInt(1)>>, <<FInt(-2), FInt(2)>>>>}

\* The coordinates a likelihood call is given: below, at and between the limits.
CoordValues(row) ==
    {FSub(row[1], FInt(1)), row[1], FDiv(FAdd(row[1], row[2]), FInt(2)), row[2]}

ParamVectors(limits) ==
    {v \in [1..Len(limits) -> UNION {CoordValues(limits[i]) : i \in 1..Len(limits)}] :
        \A i \in 1..Len(limits) : v[i] \in CoordValues(limits[i])}

\* What one redshift bin contributes.
Bin(dcd, hcdet) == [dcd |-> dcd, hcdet |-> hcdet, invertible |-> TRUE]
Singular == [dcd |-> 0, hcdet |-> 0, invertible |-> FALSE]
BinValues ==
    {Bin(0, -1), Bin(0, 0), Bin(0, 1), Bin(-1, 0), Bin(-1, 1), Bin(-(2^30), 0), Singular}

\* The bins of one prediction: nz is 1 or 2.
PredictOutputs == UNION {[1..nz -> BinValues] : nz \in {1, 2}}

\* np.any(params >= self.param_limits[:,1]) or np.any(params <= self.param_limits[:,0])
outside_limits(params, param_limits) ==
    \E i \in 1..Len(params) :
        \/ FLe(param_limits[i][2], params[i])
        \/ FLe(params[i], param_limits[i][1])

\* The loop over the redshift bins from bin bb on, chi2 being the sum so far.
RECURSIVE chi2_loop(_, _, _)
chi2_loop(bins, bb, chi2) ==
    IF bb > Len(bins) THEN [status |-> "returned", value |-> Finite(chi2)]
    ELSE IF ~bins[bb].invertible THEN [status |-> "LinAlgError"]
    ELSE LET new_chi2 == chi2 + bins[bb].dcd - bins[bb].hcdet
         IN IF ~(0 > new_chi2 /\ new_chi2 > Chi2Floor)
            THEN [status |-> "AssertionError"]
            ELSE chi2_loop(bins, bb + 1, new_chi2)

\* LikelihoodClass.likelihood(params): the result, and whether gpemu.predict was
\* called; bins is what the prediction gives.
likelihood(params, param_limits, bins) ==
    IF outside_limits(params, param_limits)
    THEN [status |-> "returned", value |-> NegInf, predicted |-> FALSE]
    ELSE [predicted |-> TRUE] @@ chi2_loop(bins, 1, 0)

InitLik ==
    /\ IdleNotLik
    /\ IdleSamp
    /\ mf_slope \in BOOLEAN
    /\ lik_limits \in LikLimitsSet(mf_slope)
    /\ lik_params = <<>>
    /\ lik_result = <<>>
    /\ emulated = <<>>
    /\ predict_calls = 0
    /\ lik_calls = 0

\* One call of likelihood; the prediction is stored before the bins are summed.
Likelihood ==
    /\ lik_calls < MaxLikCalls
    /\ \E params \in ParamVectors(lik_limits), bins \in PredictOutputs :
        LET res == likelihood(params, lik_limits, bins)
        IN /\ lik_params' = params
           /\ lik_result' = res
           /\ emulated' = IF res.predicted
                          THEN [nparams |-> IF mf_slope THEN Tail(params) ELSE params,
                                bins |-> bins]
                          ELSE emulated
           /\ predict_calls' = IF res.predicted THEN predict_calls + 1 ELSE predict_calls
    /\ lik_calls' = lik_calls + 1
    /\ UNCHANGED <<lik_limits, mf_slope>>
    /\ UNCHANGED <<sampVars, notLik>>

NextLik == Likelihood

SpecLik == InitLik /\ [][NextLik]_vars

\* C9: a call with a coordinate at or beyond a limit returns -inf and does not
\* query the surrogate; a call with every coordinate strictly inside the limits
\* and a positive definite covariance in every bin returns a finite number
\* below zero.
C9_Original ==
    [][lik_calls' = lik_calls + 1 =>
        /\ ~StrictlyInside(lik_params', lik_limits) =>
              /\ lik_result'.status = "returned"
              /\ lik_result'.value = NegInf
              /\ predict_calls' = predict_calls
              /\ emulated' = emulated
        /\ (/\ StrictlyInside(lik_params', lik_limits)
            /\ \A bb \in 1..Len(emulated'.bins) : emulated'.bins[bb].invertible) =>
              /\ lik_result'.status = "returned"
              /\ isfinite(lik_result'.value)
              /\ lik_result'.value.num < 0]_vars

-----------------------------------------------------------------------------
(* likelihood.LikelihoodClass.do_sampling                                   *)
(*                                                                          *)
(* samp_pc is the position in do_sampling: "start", "check" (the likelihood *)
(* of the initial walkers is being evaluated, one walker a step), "burnin", *)
(* "sampling" (at the test of the while loop), "savetxt" and "writing" (in  *)
(* np.savetxt, before and after the savefile is opened for writing), "done" *)
(* (returned) and "failed" (an exception left it).                          *)
(*                                                                          *)
(* A sample of the chain is <<walker, round, step>>; the sampler's chain is *)
(* one sequence of samples a walker, the savefile a sequence of rows.       *)

RandDen == 2
MaxRounds == 2

NWalkersSet == {1, 2}

\* nsamples, the steps of one sampling round.
RoundStepsSet == {1, 2}

\* np.random.rand: a number of [0, 1)
RandValues == {Frac(k, RandDen) : k \in 0..(RandDen - 1)}

\* What the prediction gives for an initial walker.
WalkerOutputs == [1..1 -> {Bin(0, 1), Bin(-1, 1), Bin(0, 0), Singular}]

\* pr = self.param_limits[:,1] - self.param_limits[:,0]
prior_range(row) == FSub(row[2], row[1])

\* cent = (self.param_limits[:,1] + self.param_limits[:,0])/2.
prior_centre(row) == FDiv(FAdd(row[2], row[1]), FInt(2))

\* cent + 2*pr*rand - pr: the ball as wide as the limits, a slip.
initial_position_wide(cent, pr, rand) ==
    FSub(FAdd(cent, FMul(FMul(FInt(2), pr), rand)), pr)

\* cent + 2*pr/16.*np.random.rand(self.ndim) - pr/16., one coordinate
initial_position(cent, pr, rand) ==
    FSub(FAdd(cent, FMul(FDiv(FMul(FInt(2), pr), FInt(16)), rand)), FDiv(pr, FInt(16)))

\* np.all([np.isfinite(...) for pp in p0])
all_finite(lnprobs) == \A w \in 1..Len(lnprobs) : isfinite(lnprobs[w])

InitSampling ==
    /\ IdleNotLik
    /\ mf_slope \in BOOLEAN
    /\ lik_limits \in LikLimitsSet(mf_slope)
    /\ lik_params = <<>>
    /\ lik_result = <<>>
    /\ emulated = <<>>
    /\ predict_calls = 0
    /\ lik_calls = 0
    /\ samp_pc = "start"
    /\ nwalkers \in NWalkersSet
    /\ while_loop \in BOOLEAN
    /\ names_written = FALSE
    /\ p0 = <<>>
    /\ lnprob0 = <<>>
    /\ samp_err = "ok"
    /\ burnin_runs = 0
    /\ rounds = 0
    /\ saved = 0
    /\ round_steps \in RoundStepsSet
    /\ chain = <<>>
    /\ gr = <<>>
    /\ savefile = <<>>
    /\ pos = <<>>
    /\ run_starts = <<>>

\* Lines 233-243: the names file is written and the initial walkers are drawn.
DrawWalkers ==
    /\ samp_pc = "start"
    /\ names_written' = TRUE
    /\ \E rand \in [1..nwalkers -> [1..Len(lik_limits) -> RandValues]] :
        p0' = [w \in 1..nwalkers |->
                  [i \in 1..Len(lik_limits) |->
                      initial_position(prior_centre(lik_limits[i]),
                                       prior_range(lik_limits[i]), rand[w][i])]]
    /\ samp_pc' = "check"
    /\ UNCHANGED <<nwalkers, while_loop, lnprob0, samp_err, burnin_runs, rounds, saved>>
    /\ UNCHANGED <<round_steps, chain, gr, savefile>>
    /\ UNCHANGED <<pos, run_starts>>
    /\ UNCHANGED <<likVars, notLik>>

\* Line 244, one element of the list: the likelihood of the next initial walker.
CheckWalker ==
    /\ samp_pc = "check"
    /\ Len(lnprob0) < nwalkers
    /\ \E bins \in WalkerOutputs :
        LET pp == p0[Len(lnprob0) + 1]
            res == likelihood(pp, lik_limits, bins)
        IN /\ lik_params' = pp
           /\ lik_result' = res
           /\ lik_calls' = lik_calls + 1
           /\ emulated' = IF res.predicted
                          THEN [nparams |-> IF mf_slope THEN Tail(pp) ELSE pp,
                                bins |-> bins]
                          ELSE emulated
           /\ predict_calls' = IF res.predicted THEN predict_calls + 1 ELSE predict_calls
           /\ IF res.status = "returned"
              THEN /\ lnprob0' = Append(lnprob0, res.value)
                   /\ UNCHANGED <<samp_pc, samp_err>>
              ELSE /\ samp_pc' = "failed"
                   /\ samp_err' = res.status
                   /\ UNCHANGED lnprob0
    /\ UNCHANGED <<lik_limits, mf_slope>>
    /\ UNCHANGED <<nwalkers, while_loop, names_written, p0, burnin_runs, rounds, saved>>
    /\ UNCHANGED <<round_steps, chain, gr, savefile>>
    /\ UNCHANGED <<pos, run_starts>>
    /\ UNCHANGED notLik

\* Line 244, the assertion over the whole list.
AssertFinite ==
    /\ samp_pc = "check"
    /\ Len(lnprob0) = nwalkers
    /\ IF all_finite(lnprob0)
       THEN samp_pc' = "burnin" /\ UNCHANGED samp_err
       ELSE samp_pc' = "failed" /\ samp_err' = "AssertionError"
    /\ UNCHANGED <<nwalkers, while_loop, names_written, p0, lnprob0, burnin_runs, rounds,
                   saved>>
    /\ UNCHANGED <<round_steps, chain, gr, savefile>>
    /\ UNCHANGED <<pos, run_starts>>
    /\ UNCHANGED <<likVars, notLik>>

\* pos, _, _ = emcee_sampler.run_mcmc(p0, burnin): the positions of the walkers
\* at the end of the burn-in, sample 0 of round 0.
burnin_end(n) == [w \in 1..n |-> <<w, 0, 0>>]

\* run_mcmc(pos0, N) starts the walkers at pos0, whatever the sampler holds.
run_start(pos0, old_chain) == pos0

\* Lines 245-251: the burn-in run, the test of the acceptance fraction, the
\* reset, which empties the sampler's chain, and gr = 10. A likelihood call of
\* the run can raise.
Burnin ==
    /\ samp_pc = "burnin"
    /\ burnin_runs' = burnin_runs + 1
    /\ \E outcome \in {"ok", "AssertionError", "LinAlgError"} :
        /\ samp_err' = outcome
        /\ samp_pc' = IF outcome = "ok" THEN "sampling" ELSE "failed"
        /\ chain' = IF outcome = "ok" THEN [w \in 1..nwalkers |-> <<>>] ELSE chain
        /\ gr' = IF outcome = "ok" THEN [i \in 1..Len(lik_limits) |-> "above"] ELSE gr
        /\ pos' = IF outcome = "ok" THEN burnin_end(nwalkers) ELSE pos
    /\ UNCHANGED run_starts
    /\ UNCHANGED <<nwalkers, while_loop, names_written, p0, lnprob0, rounds, saved>>
    /\ UNCHANGED <<round_steps, savefile>>
    /\ UNCHANGED <<likVars, notLik>>

\* while np.any(gr > 1.05): a gr that is nan or equal to 1.05 is not greater.
loop_test(grs) == \E i \in 1..Len(grs) : grs[i] = "above"

\* The while loop is left (return emcee_sampler).
SamplingReturn ==
    /\ samp_pc = "sampling"
    /\ ~loop_test(gr)
    /\ samp_pc' = "done"
    /\ UNCHANGED <<nwalkers, while_loop, names_written, p0, lnprob0, samp_err,
                   burnin_runs, rounds, saved, round_steps, chain, gr, savefile>>
    /\ UNCHANGED <<pos, run_starts>>
    /\ UNCHANGED <<likVars, notLik>>

\* emcee_sampler.run_mcmc(pos, nsamples) that starts its chain afresh, a slip.
run_mcmc_fresh(old_chain, round, steps) ==
    [w \in 1..Len(old_chain) |-> [s \in 1..steps |-> <<w, round, s>>]]

\* emcee_sampler.run_mcmc(pos, nsamples): every walker's chain grows by the
\* steps of this round.
run_mcmc(old_chain, round, steps) ==
    [w \in 1..Len(old_chain) |->
        old_chain[w] \o [s \in 1..steps |-> <<w, round, s>>]]

\* What gelman_rubin(chain) can give for one parameter, relative to 1.05: with
\* one step a walker the variance with ddof = 1 is nan, and so is R; R is nan
\* also when no walker has moved (W = 0, B = 0).
gelman_rubin(the_chain) ==
    IF Len(the_chain[1]) = 1 THEN {"nan"}
    ELSE {"below", "equal", "above", "nan"}

\* Lines 252-255: the loop is entered; run_mcmc, in which a likelihood call can
\* raise, then gelman_rubin.
SamplingRound ==
    /\ samp_pc = "sampling"
    /\ loop_test(gr)
    /\ rounds < MaxRounds
    /\ \E raised \in BOOLEAN :
        IF raised
        THEN /\ samp_pc' = "failed"
             /\ samp_err' = "AssertionError"
             /\ UNCHANGED <<rounds, chain, gr, run_starts>>
        ELSE /\ rounds' = rounds + 1
             /\ chain' = run_mcmc(chain, rounds + 1, round_steps)
             /\ run_starts' = Append(run_starts, run_start(pos, chain))
             /\ gr' \in [1..Len(lik_limits) -> gelman_rubin(chain')]
             /\ samp_pc' = "savetxt"
             /\ UNCHANGED samp_err
    /\ UNCHANGED <<nwalkers, while_loop, names_written, p0, lnprob0, burnin_runs, saved>>
    /\ UNCHANGED <<round_steps, savefile, pos>>
    /\ UNCHANGED <<likVars, notLik>>

\* emcee_sampler.flatchain: the walkers' chains one after the other.
RECURSIVE flatchain(_)
flatchain(the_chain) ==
    IF the_chain = <<>> THEN <<>> ELSE Head(the_chain) \o flatchain(Tail(the_chain))

\* np.savetxt(savefile, ...) opens the savefile for writing, which empties it;
\* the open can fail and leave the file as it was.
SaveTxtOpen ==
    /\ samp_pc = "savetxt"
    /\ \E opened \in BOOLEAN :
        IF opened
        THEN /\ savefile' = <<>>
             /\ samp_pc' = "writing"
             /\ UNCHANGED samp_err
        ELSE /\ samp_pc' = "failed"
             /\ samp_err' = "OSError"
             /\ UNCHANGED savefile
    /\ UNCHANGED <<nwalkers, while_loop, names_written, p0, lnprob0, burnin_runs, rounds,
                   saved, round_steps, chain, gr>>
    /\ UNCHANGED <<pos, run_starts>>
    /\ UNCHANGED <<likVars, notLik>>

\* np.savetxt writes the rows and closes the file, then lines 257-258; a write
\* that fails leaves the rows written so far.
SaveTxtWrite ==
    /\ samp_pc = "writing"
    /\ \E nrows \in 0..Len(flatchain(chain)) :
        /\ savefile' = SubSeq(flatchain(chain), 1, nrows)
        /\ IF nrows = Len(flatchain(chain))
           THEN /\ saved' = rounds
                /\ samp_pc' = IF while_loop = FALSE THEN "done" ELSE "sampling"
                /\ UNCHANGED samp_err
           ELSE /\ samp_pc' = "failed"
                /\ samp_err' = "OSError"
                /\ UNCHANGED saved
    /\ UNCHANGED <<nwalkers, while_loop, names_written, p0, lnprob0, burnin_runs, rounds,
                   round_steps, chain, gr>>
    /\ UNCHANGED <<pos, run_starts>>
    /\ UNCHANGED <<likVars, notLik>>

NextSampling ==
    \/ DrawWalkers
    \/ CheckWalker
    \/ AssertFinite
    \/ Burnin
    \/ SamplingRound
    \/ SaveTxtOpen
    \/ SaveTxtWrite
    \/ SamplingReturn

SpecSampling == InitSampling /\ [][NextSampling]_vars

\* C10: do_sampling runs no burn-in and no sampling round unless the likelihood
\* of every one of the nwalkers initial walkers is finite; once an initial
\* walker has a likelihood that is not finite, or its likelihood call has raised,
\* the call fails without running anything; and every initial walker is within
\* 1/16 of the width of the limits of their centre in every coordinate, and
\* strictly inside the limits.
C10_FiniteStart ==
    /\ (samp_pc \in {"burnin", "sampling", "done"} \/ burnin_runs > 0 \/ rounds > 0) =>
          /\ Len(lnprob0) = nwalkers
          /\ \A w \in 1..nwalkers : isfinite(lnprob0[w])
    /\ (\E w \in 1..Len(lnprob0) : ~isfinite(lnprob0[w])) =>
          /\ samp_pc \in {"check", "failed"}
          /\ burnin_runs = 0 /\ rounds = 0
    /\ (samp_pc = "failed" /\ Len(lnprob0) < nwalkers) =>
          burnin_runs = 0 /\ rounds = 0 /\ saved = 0
    /\ \A w \in 1..Len(p0) :
          /\ StrictlyInside(p0[w], lik_limits)
          /\ \A i \in 1..Len(lik_limits) :
                LET width == FSub(lik_limits[i][2], lik_limits[i][1])
                    centre == FDiv(FAdd(lik_limits[i][1], lik_limits[i][2]), FInt(2))
                    off == FSub(p0[w][i], centre)
                IN /\ FLe(off, FDiv(width, FInt(16)))
                   /\ FLe(FSub(FInt(0), off), FDiv(width, FInt(16)))

\* do_sampling has returned after two walkers with finite likelihoods, a burn-in
\* and a sampling round.
C10_Witness ==
    /\ samp_pc = "done"
    /\ nwalkers = 2
    /\ Len(lnprob0) = 2
    /\ all_finite(lnprob0)
    /\ burnin_runs = 1
    /\ rounds >= 1

\* The samples of the sampling rounds completed so far.
CompletedSamples ==
    {<<w, r, s>> : w \in 1..nwalkers, r \in 1..rounds, s \in 1..round_steps}

\* C11: at every round boundary (do_sampling is back at the test of its loop
\* after a round) and at return, the savefile holds every sample of every
\* sampling round completed so far, each once.
C11_ChainSaved ==
    (samp_pc \in {"sampling", "done"} /\ rounds > 0) =>
        /\ Range(savefile) = CompletedSamples
        /\ Len(savefile) = Cardinality(CompletedSamples)

\* do_sampling has returned after two rounds of two walkers.
C11_Witness ==
    /\ samp_pc = "done"
    /\ rounds = 2
    /\ nwalkers = 2
    /\ Len(savefile) = 4 * round_steps

\* C12: do_sampling returns only after at least one sampling round; with
\* while_loop = False after exactly one; and otherwise only after a round at
\* which the Gelman-Rubin statistic of every parameter is below 1.05, so that a
\* statistic that is not below 1.05 always brings another round.
C12_Original ==
    samp_pc = "done" =>
        /\ rounds >= 1
        /\ while_loop = FALSE => rounds = 1
        /\ while_loop = TRUE => \A i \in 1..Len(gr) : gr[i] = "below"

\* The samples of the sampling rounds 1..k.
SamplesUpTo(k) ==
    {<<w, r, s>> : w \in 1..nwalkers, r \in 1..k, s \in 1..round_steps}

\* C13: at every point of do_sampling, also inside and after a checkpoint write
\* that fails, the savefile holds the complete previous checkpoint (the samples
\* of the rounds up to the last completed write) or the complete new one (the
\* samples of all rounds run).
C13_Original ==
    /\ Range(savefile) \in {SamplesUpTo(saved), SamplesUpTo(rounds)}
    /\ Len(savefile) = Cardinality(Range(savefile))

-----------------------------------------------------------------------------
(* likelihood.LikelihoodClass.new_parameter_limits                          *)
(*                                                                          *)
(* self.flatchain is read by new_parameter_limits and assigned nowhere in   *)
(* the class: it is what the caller has put there, or unset. Its rows are   *)
(* parameter vectors of exact fractions, the columns ordered as the rows of *)
(* param_limits: the mean flux slope (when enabled), the dense parameters,  *)
(* the sparse parameters. Confidences and percentile levels are in percent. *)

\* A sequence of fractions in increasing order.
RECURSIVE SortFracs(_)
SortFracs(s) ==
    IF s = <<>> THEN <<>>
    ELSE LET i == CHOOSE k \in 1..Len(s) : \A j \in 1..Len(s) : FLe(s[k], s[j])
         IN <<s[i]>> \o SortFracs([j \in 1..(Len(s) - 1) |-> IF j < i THEN s[j] ELSE s[j + 1]])

\* np.percentile(column, q): linear interpolation between the closest ranks.
percentile(column, q) ==
    LET a == SortFracs(column)
        idx == FMul(FDiv(q, FInt(100)), FInt(Len(a) - 1))
        below == idx[1] \div idx[2]
        part == FSub(idx, FInt(below))
    IN IF below + 1 >= Len(a) THEN a[Len(a)]
       ELSE FAdd(a[below + 1], FMul(part, FSub(a[below + 2], a[below + 1])))

\* The levels [50 - 50c, 50 + 50c] of the central interval of confidence c.
central_levels(confidence) ==
    <<FDiv(FInt(100 - confidence), FInt(2)), FDiv(FInt(100 + confidence), FInt(2))>>

\* [100-100*confidence, 100*confidence]
percentile_levels(confidence) == <<FInt(100 - confidence), FInt(confidence)>>

\* LikelihoodClass.new_parameter_limits(confidence, include_dense)
new_parameter_limits(the_flatchain, confidence, include_dense, slope, dense_names) ==
    IF the_flatchain = <<>> THEN [status |-> "AttributeError", limits |-> <<>>]
    ELSE LET ncols == Len(the_flatchain[1])
             levels == percentile_levels(confidence)
             column(j) == [r \in 1..Len(the_flatchain) |-> the_flatchain[r][j]]
             limits == [j \in 1..ncols |->
                           <<percentile(column(j), levels[1]),
                             percentile(column(j), levels[2])>>]
             ndense == IF include_dense THEN 0
                       ELSE dense_names + (IF slope THEN 1 ELSE 0)
             new_par == SubSeq(limits, ndense + 1, ncols)
         IN IF \A j \in 1..Len(new_par) : FLt(new_par[j][1], new_par[j][2])
            THEN [status |-> "returned", limits |-> new_par]
            ELSE [status |-> "AssertionError", limits |-> <<>>]

\* The confidences the docstring of new_parameter_limits allows, in percent.
ConfidenceSet == {68, 95, 99}

\* The limits of a LikelihoodClass with one sparse parameter: with a mean flux
\* slope the rows are t0_slope, the dense t0 factor and the sparse parameter.
RefLimits(slope) ==
    IF slope THEN <<<<Frac(-1, 4), Frac(1, 4)>>, <<Frac(3, 4), Frac(5, 4)>>,
                    <<FInt(0), FInt(1)>>>>
    ELSE <<<<FInt(0), FInt(1)>>>>

\* len(self.emulator.mf.dense_param_names)
DenseNames(slope) == IF slope THEN 1 ELSE 0

\* The point at num/den of the way from the lower to the upper limit.
Along(row, num, den) == FAdd(row[1], FMul(Frac(num, den), FSub(row[2], row[1])))

\* The four values a column of the chain holds: on the limits, around the
\* middle half, in the lower half, evenly spread, all the same.
ColumnPatterns(row) ==
    {<<row[1], row[1], row[2], row[2]>>,
     <<Along(row, 1, 4), Along(row, 1, 4), Along(row, 3, 4), Along(row, 3, 4)>>,
     <<Along(row, 1, 8), Along(row, 1, 8), Along(row, 1, 2), Along(row, 1, 2)>>,
     <<Along(row, 1, 5), Along(row, 2, 5), Along(row, 3, 5), Along(row, 4, 5)>>,
     <<Along(row, 1, 2), Along(row, 1, 2), Along(row, 1, 2), Along(row, 1, 2)>>}

\* The chains a caller can have put in self.flatchain.
ChainSet(limits) ==
    {[r \in 1..4 |-> [j \in 1..Len(limits) |-> cols[j][r]]] :
        cols \in {c \in [1..Len(limits) -> UNION {ColumnPatterns(limits[j]) :
                                                     j \in 1..Len(limits)}] :
                     \A j \in 1..Len(limits) : c[j] \in ColumnPatterns(limits[j])}}

(***************************************************************************)
(* likelihood.LikelihoodClass.check_for_refinement                         *)
(***************************************************************************)

\* get_covar_det returns -inf at a point on or beyond a limit, so that
\* refine_metric is -inf/-inf = nan there; elsewhere the ratio of the
\* determinants falls on either side of thresh.
refine_metric(params, param_limits) ==
    IF StrictlyInside(params, param_limits) THEN {"below", "above"} ELSE {"nan"}

\* A faulty exit test: one corner below thresh is enough.
metric_passes_either(uref, lref) == uref = "below" \/ lref = "below"

\* (uref < thresh) and (lref < thresh)
metric_passes(uref, lref) == uref = "below" /\ lref = "below"

\* A faulty step that leaves the end where it is.
expand_end_fixed(x, midpt) == FAdd(FMul(FInt(1), FSub(x, midpt)), midpt)

\* 1.4*(limits[:,k] - midpt) + midpt
expand_end(x, midpt) == FAdd(FMul(Frac(7, 5), FSub(x, midpt)), midpt)

\* A faulty clamp that lets the lower end through.
np_max_first(x, y) == x

\* np.max([x, y], axis=0), elementwise
np_max(x, y) == IF FLt(x, y) THEN y ELSE x

\* np.min([x, y], axis=0), elementwise
np_min(x, y) == IF FLt(y, x) THEN y ELSE x

\* The body of the loop after the exit test: move each limit 40% outwards and
\* clamp it to param_limits.  midpt is computed once, before either end moves.
expand_limits(limits, param_limits) ==
    [j \in 1..Len(limits) |->
        LET midpt == FDiv(FAdd(limits[j][1], limits[j][2]), FInt(2))
        IN <<np_max(expand_end(limits[j][1], midpt), param_limits[j][1]),
             np_min(expand_end(limits[j][2], midpt), param_limits[j][2])>>]

\* A faulty test that never sees the region reach param_limits.
limits_saturated_never(limits, param_limits) == FALSE

\* np.all(limits == self.param_limits)
limits_saturated(limits, param_limits) == limits = param_limits

\* The lower and the upper corner of a region.
LowerCorner(limits) == [j \in 1..Len(limits) |-> limits[j][1]]
UpperCorner(limits) == [j \in 1..Len(limits) |-> limits[j][2]]

\* The number of passes through the loop a run is followed for.
MaxCfrIter == 8

InitRef ==
    /\ IdleNotRef
    /\ mf_slope \in BOOLEAN
    /\ lik_limits = RefLimits(mf_slope)
    /\ lik_params = <<>>
    /\ lik_result = <<>>
    /\ emulated = <<>>
    /\ predict_calls = 0
    /\ lik_calls = 0
    /\ ndense_names = DenseNames(mf_slope)
    /\ flatchain_attr \in {<<>>} \cup ChainSet(lik_limits)
    /\ npl_args = <<>>
    /\ npl_result = <<>>
    /\ cfr_pc = "idle"
    /\ cfr_limits = <<>>
    /\ cfr_first = <<>>
    /\ cfr_prev = <<>>
    /\ cfr_iter = 0
    /\ cfr_metric = <<>>

\* One call of new_parameter_limits by a caller.
NewParameterLimits ==
    /\ cfr_pc = "idle"
    /\ npl_args = <<>>
    /\ \E confidence \in ConfidenceSet, include_dense \in BOOLEAN :
          /\ npl_args' = [confidence |-> confidence, include_dense |-> include_dense]
          /\ npl_result' = new_parameter_limits(flatchain_attr, confidence, include_dense,
                                                mf_slope, ndense_names)
    /\ UNCHANGED <<flatchain_attr, ndense_names, cfr_pc, cfr_limits, cfr_first, cfr_prev,
                   cfr_iter, cfr_metric>>
    /\ UNCHANGED <<likVars, notRef>>

\* check_for_refinement up to the head of the loop.
CfrStart ==
    /\ cfr_pc = "idle"
    /\ \E conf \in ConfidenceSet :
          LET r == new_parameter_limits(flatchain_attr, conf, TRUE, mf_slope, ndense_names)
          IN IF r.status = "returned"
             THEN /\ cfr_pc' = "check"
                  /\ cfr_limits' = r.limits
                  /\ cfr_first' = r.limits
             ELSE /\ cfr_pc' = r.status
                  /\ UNCHANGED <<cfr_limits, cfr_first>>
    /\ UNCHANGED <<flatchain_attr, ndense_names, npl_args, npl_result, cfr_prev, cfr_iter,
                   cfr_metric>>
    /\ UNCHANGED <<likVars, notRef>>

\* One pass through the loop.  cfr_metric records the metric at the two corners
\* the code evaluates and whether it is below thresh at every other corner of
\* the region, which the code does not look at.
CfrIteration ==
    /\ cfr_pc = "check"
    /\ cfr_iter < MaxCfrIter
    /\ \E uref \in refine_metric(LowerCorner(cfr_limits), lik_limits),
          lref \in refine_metric(UpperCorner(cfr_limits), lik_limits),
          others \in IF Len(cfr_limits) = 1 THEN {TRUE} ELSE BOOLEAN :
          /\ cfr_metric' = [uref |-> uref, lref |-> lref, others |-> others]
          /\ cfr_iter' = cfr_iter + 1
          /\ IF metric_passes(uref, lref)
             THEN /\ cfr_pc' = "done"
                  /\ UNCHANGED <<cfr_limits, cfr_prev>>
             ELSE LET moved == expand_limits(cfr_limits, lik_limits)
                  IN /\ cfr_limits' = moved
                     /\ cfr_prev' = cfr_limits
                     /\ cfr_pc' = IF limits_saturated(moved, lik_limits)
                                  THEN "done" ELSE "check"
    /\ UNCHANGED <<flatchain_attr, ndense_names, npl_args, npl_result, cfr_first>>
    /\ UNCHANGED <<likVars, notRef>>

NextRef == NewParameterLimits \/ CfrStart \/ CfrIteration

SpecRefine == InitRef /\ [][NextRef]_vars

\* A pass through the loop can be taken exactly when the call is at the head
\* of the loop.
CfrIterationEnabled == cfr_pc = "check" /\ cfr_iter < MaxCfrIter

\* The loop of check_for_refinement is sequential code: a pass that can be
\* taken is taken.  This is WF_vars(CfrIteration) with ENABLED <<CfrIteration>>_vars
\* written out as CfrIterationEnabled.
SpecRefineFair ==
    SpecRefine /\ ([]<>(~CfrIterationEnabled) \/ []<><<CfrIteration>>_vars)

-----------------------------------------------------------------------------
(* Claims about new_parameter_limits and check_for_refinement *)

\* The columns new_parameter_limits keeps: all of them with include_dense,
\* otherwise those after the mean flux slope and the dense parameters.
RetainedColumns(include_dense) ==
    IF include_dense THEN 1..Len(lik_limits)
    ELSE (ndense_names + (IF mf_slope THEN 1 ELSE 0) + 1)..Len(lik_limits)

ChainColumn(j) == [r \in 1..Len(flatchain_attr) |-> flatchain_attr[r][j]]

\* C14: new_parameter_limits called with confidence c returns, for each
\* retained parameter, the interval between the (50 - 50c)-th and the
\* (50 + 50c)-th percentile of the chain (the central interval holding a
\* fraction c of the samples); the dense columns, the mean flux slope among
\* them, are left out unless include_dense is set, and then every column is
\* returned.
C14_Original ==
    (npl_args # <<>> /\ npl_result.status = "returned") =>
        LET kept == RetainedColumns(npl_args.include_dense)
            first == CHOOSE j \in kept : \A k \in kept : j <= k
            levels == central_levels(npl_args.confidence)
        IN /\ Len(npl_result.limits) = Cardinality(kept)
           /\ \A j \in kept :
                 npl_result.limits[j - first + 1] =
                     <<percentile(ChainColumn(j), levels[1]),
                       percentile(ChainColumn(j), levels[2])>>

\* C15 as stated: check_for_refinement returns a region only when the metric
\* is below the threshold at every corner of that region, or the region equals
\* the global parameter limits.
C15_Original ==
    cfr_pc = "done" =>
        \/ /\ cfr_metric.uref = "below" /\ cfr_metric.lref = "below"
           /\ cfr_metric.others
        \/ cfr_limits = lik_limits

\* C15: check_for_refinement returns a region only when the metric is below
\* the threshold at the lower corner and at the upper corner of that region
\* (the two corners it evaluates), or the region equals the global parameter
\* limits.
C15_TwoCorners ==
    cfr_pc = "done" =>
        \/ cfr_metric.uref = "below" /\ cfr_metric.lref = "below"
        \/ cfr_limits = lik_limits

\* A region of three parameters returned after an expansion because the metric
\* is below the threshold at its two evaluated corners, though not at the others.
C15_Witness ==
    /\ cfr_pc = "done"
    /\ cfr_iter >= 2
    /\ Len(cfr_limits) = 3
    /\ cfr_metric.uref = "below" /\ cfr_metric.lref = "below"
    /\ ~cfr_metric.others
    /\ cfr_limits # lik_limits

\* C16: check_for_refinement terminates: from every initial credible region
\* with low < high in each parameter inside the global limits, and whatever
\* the refinement metric does at the corners, the loop is left and the region
\* returned.
C16_Terminates == (cfr_pc = "check") ~> (cfr_pc = "done")

\* A run that the metric never let out: it ended after several expansions
\* only because the region had grown to the global limits.
C16_Witness ==
    /\ cfr_pc = "done"
    /\ cfr_iter >= 4
    /\ cfr_metric.uref # "below"
    /\ cfr_limits = lik_limits
    /\ cfr_first # lik_limits

\* C17: the global limits are a fixed point of check_for_refinement: called
\* with a credible region already equal to param_limits, it leaves the loop
\* after at most one pass and returns that same region.
C17_FixedPoint ==
    (cfr_pc \in {"check", "done"} /\ cfr_first = lik_limits) =>
        /\ cfr_limits = lik_limits
        /\ cfr_iter <= 1
        /\ cfr_iter = 1 => cfr_pc = "done"

\* A call whose credible region was the global limits has returned them after
\* one pass.
C17_Witness ==
    /\ cfr_pc = "done"
    /\ cfr_first = lik_limits
    /\ cfr_iter = 1
    /\ cfr_limits = lik_limits
    /\ Len(cfr_limits) = 3

\* The interval the loop makes of one row of the previous region: each end
\* 40% further from the midpoint (a fifth of the width further out), then
\* clamped to the global limit.
Widened(row, bound) ==
    LET fifth == FDiv(FSub(row[2], row[1]), FInt(5))
        lo == FSub(row[1], fifth)
        hi == FAdd(row[2], fifth)
    IN <<IF FLt(lo, bound[1]) THEN bound[1] ELSE lo,
         IF FLt(bound[2], hi) THEN bound[2] ELSE hi>>

\* Region a lies within region b.
Within(a, b) ==
    \A j \in 1..Len(a) : FSub(a[j][1], b[j][1])[1] >= 0 /\ FSub(b[j][2], a[j][2])[1] >= 0

\* C18: every pass of check_for_refinement that does not exit widens each
\* parameter's interval by 40% about its midpoint and then clamps it to the
\* global limits; so the region always lies within param_limits and contains
\* the region of the pass before and the initial credible region.
C18_Widening ==
    (cfr_pc \in {"check", "done"} /\ cfr_prev # <<>>) =>
        /\ \A j \in 1..Len(cfr_limits) : cfr_limits[j] = Widened(cfr_prev[j], lik_limits[j])
        /\ Within(cfr_limits, lik_limits)
        /\ Within(cfr_prev, cfr_limits)
        /\ Within(cfr_first, cfr_limits)

\* After two widening passes the region is strictly larger than the initial
\* one, clamped at one end of a parameter and still short of the limit at the
\* other.
C18_Witness ==
    /\ cfr_pc = "check"
    /\ cfr_iter >= 2
    /\ cfr_prev # cfr_first
    /\ cfr_limits # cfr_prev
    /\ \E j \in 1..Len(cfr_limits) :
          /\ cfr_limits[j][1] = lik_limits[j][1]
          /\ FLt(cfr_limits[j][2], lik_limits[j][2])
          /\ FLt(lik_limits[j][1], cfr_first[j][1])

-----------------------------------------------------------------------------
(* Claims about the refinement of the design *)

\* The cell of the grid of the design on the region that point v falls in, for
\* each parameter.
DesignCell(v, limits, nsamples) ==
    [j \in 1..Len(limits) |-> NearestBin(map_to_unit_cube(v, limits).vec[j], nsamples)]

\* build_params was given as prior_points exactly the points held before the
\* call that lie strictly inside the region, in their order.
PriorsAreHeldInside ==
    ic_call'.prior =
        SelectSeq(emu.sample_params.data,
                  LAMBDA v : \A j \in 1..Len(v) :
                      FLt(ic_call'.limits[j][1], v[j]) /\ FLt(v[j], ic_call'.limits[j][2]))

\* The design holds every prior point and has one point in each cell of every
\* parameter.
DesignExtendsPriors ==
    /\ Range(ic_call'.prior) \subseteq Range(ic_call'.design)
    /\ \A a, b \in 1..Len(ic_call'.design) :
          a # b => \A j \in 1..Len(ic_call'.limits) :
              DesignCell(ic_call'.design[a], ic_call'.limits, Len(ic_call'.design))[j]
                  # DesignCell(ic_call'.design[b], ic_call'.limits, Len(ic_call'.design))[j]

\* The simulations were run for the points of the design that are new, and for
\* no point held before the call.
OnlyNewPointsRun ==
    /\ Len(ic_call'.ran) = Len(ic_call'.design) - Len(ic_call'.prior)
    /\ \A k \in 1..Len(ic_call'.ran) : ic_call'.ran[k] \notin Range(emu.sample_params.data)

\* C19: build_params with use_existing = True passes as prior_points exactly
\* the held points strictly inside limits in every coordinate, and the design
\* it obtains is consistent with and a superset of those points; refinement
\* then hands to the simulation runner only the points that are new, never a
\* point that was already evaluated.
C19_Original ==
    [][(emu_op' = "refinement" /\ emu_err' = "ok") =>
          PriorsAreHeldInside /\ DesignExtendsPriors /\ OnlyNewPointsRun]_vars

\* The parts of C19 about build_params alone.
C19_BuildParamsPart ==
    [][(emu_op' = "refinement" /\ emu_err' = "ok") =>
          PriorsAreHeldInside /\ DesignExtendsPriors]_vars

\* Point v lies within the limits, the ends included.
WithinLimits(v, limits) ==
    \A j \in 1..Len(v) : FLe(limits[j][1], v[j]) /\ FLe(v[j], limits[j][2])

\* C20: after an initial build and any refinement rounds (refinement, or
\* make_emulator_latin_hypercube / generate_emulator_submissions with
\* refinement = True and the refined region as parameter_limits) every point of
\* the sample_params the emulator holds lies within the param_limits it holds,
\* and every point of the persisted sample_params lies within the persisted
\* param_limits.
C20_Original ==
    /\ \A k \in 1..Len(emu.sample_params.data) :
          WithinLimits(emu.sample_params.data[k], emu.param_limits.data)
    /\ fs.main # NoFile =>
          \A k \in 1..Len(fs.main.sample_params) :
              WithinLimits(fs.main.sample_params[k], fs.main.param_limits)

-----------------------------------------------------------------------------
(***************************************************************************)
(* flux_power.MySpectra.get_snapshot_list, FluxPower.get_power and         *)
(* coarse_grid.Emulator.get_flux_vectors                                   *)
(***************************************************************************)

\* Redshifts are counted in units of 0.005.  self.zout = np.arange(max_z, 2.1, -0.2),
\* here the two outputs 4.2 and 4.0.
ZOut == <<840, 800>>

\* The 0.01 of _check_redshift, in units of 0.005.
RedshiftTolerance == 2

\* The redshifts at which a simulation can have written a snapshot.
SnapRedshifts == {860, 841, 840, 820, 801, 800}

\* The most snapshots a simulation directory holds.
MaxSnaps == 3

\* A snapshot directory PART_nnn: its redshift and whether its spectra load.
SnapshotSet == [red : SnapRedshifts, io : {"ok", "IOError"}]

\* The directories of a simulation: PART_000, PART_001, ... without gaps, later
\* snapshots at lower redshift, and at most one of them unreadable.
SimulationDirs ==
    {d \in UNION {[1..n -> SnapshotSet] : n \in 0..MaxSnaps} :
        /\ \A i \in 1..(Len(d) - 1) : d[i].red > d[i + 1].red
        /\ Cardinality({i \in 1..Len(d) : d[i].io = "IOError"}) <= 1}

\* MySpectra._check_redshift(red)
check_redshift(red) ==
    IF Min({AbsVal(red - ZOut[i]) : i \in 1..Len(ZOut)}) > RedshiftTolerance THEN 0 ELSE 1

\* The loop of get_snapshot_list from snapshot number snap on (snap counts from
\* 1 here); powerspectra is the FluxPower filled so far.  When loading a
\* snapshot raises IOError the handler evaluates len(powerspectra.len()), the
\* len of an int, which raises TypeError.
RECURSIVE snapshot_loop(_, _, _)
snapshot_loop(base, snap, powerspectra) ==
    IF snap > Len(base) THEN [status |-> "ok", powerspectra |-> powerspectra]
    ELSE IF Len(powerspectra.spectrae) = Len(ZOut)
    THEN [status |-> "ok", powerspectra |-> powerspectra]
    ELSE IF base[snap].io = "IOError"
    THEN [status |-> "TypeError", powerspectra |-> powerspectra]
    ELSE IF check_redshift(base[snap].red) = 0
    THEN snapshot_loop(base, snap + 1, powerspectra)
    ELSE snapshot_loop(base, snap + 1,
            [snaps |-> Append(powerspectra.snaps, snap - 1),
             spectrae |-> Append(powerspectra.spectrae, base[snap].red)])

\* MySpectra.get_snapshot_list(base): the spectra are stood for by their redshifts.
get_snapshot_list(base) ==
    LET r == snapshot_loop(base, 1, [snaps |-> <<>>, spectrae |-> <<>>])
    IN IF r.status # "ok" THEN [status |-> r.status, spectrae |-> <<>>, snaps |-> <<>>]
       ELSE IF Len(r.powerspectra.spectrae) # Len(ZOut)
       THEN [status |-> "ValueError", spectrae |-> <<>>, snaps |-> <<>>]
       ELSE [status |-> "returned", spectrae |-> r.powerspectra.spectrae,
             snaps |-> r.powerspectra.snaps]

\* The names of the parameters of FluxPower.get_power (without self).
GetPowerParameters == {"kf", "tau0_factor"}

\* np.shape of a flat array of n entries, a tuple, and an int: as Python
\* compares them.
np_shape(n) == [tuple |-> <<n>>]
py_int(n) == [int |-> n]

\* FluxPower.get_power called with the keyword arguments kwargs on the spectra
\* of point ps: a keyword that is no parameter raises TypeError; the assert
\* compares np.shape(flux_arr) with an int.
get_power(ps, kwargs) ==
    IF DOMAIN kwargs # GetPowerParameters THEN [status |-> "TypeError", value |-> <<>>]
    ELSE IF np_shape(Len(ZOut) * Len(kwargs.kf)) # py_int(Len(ZOut) * Len(kwargs.kf))
    THEN [status |-> "AssertionError", value |-> <<>>]
    ELSE [status |-> "ok", value |-> <<kwargs.tau0_factor, ps>>]

\* The rows "f(a, b) for a in outer for b in inner" of a list comprehension.
Comprehension(outer, inner, f(_, _)) ==
    [r \in 1..(Len(outer) * Len(inner)) |->
        f(outer[((r - 1) \div Len(inner)) + 1], inner[((r - 1) % Len(inner)) + 1])]

\* Emulator.get_flux_vectors(): pvals are the points held, mean_fluxes and
\* dpvals what self.mf gives (dpvals.none when it has no parameters); the
\* spectra of a point are stood for by the point.
get_flux_vectors(pvals, mean_fluxes, dpvals) ==
    LET powers == pvals
        call(mef, ps) == get_power(ps, [kf |-> KfData, mean_fluxes |-> mef])
        calls == Comprehension(mean_fluxes, powers, call)
        aparams == IF dpvals.none THEN pvals
                   ELSE Comprehension(dpvals.rows, pvals, LAMBDA dp, pv : dp \o pv)
    IN IF \E r \in 1..Len(calls) : calls[r].status # "ok"
       THEN [status |-> calls[CHOOSE r \in 1..Len(calls) :
                               /\ calls[r].status # "ok"
                               /\ \A q \in 1..(r - 1) : calls[q].status = "ok"].status,
             aparams |-> <<>>, flux_vectors |-> <<>>]
       ELSE [status |-> "returned", aparams |-> aparams,
             flux_vectors |-> [r \in 1..Len(calls) |-> calls[r].value]]

\* The points held and the trial values of the mean flux.
FluxPoints == {<<<<1>>>>, <<<<1>>, <<2>>>>, <<<<1>>, <<2>>, <<3>>>>}
MeanFluxTrials ==
    {[mean_fluxes |-> <<10>>, dpvals |-> [none |-> TRUE, rows |-> <<>>]],
     [mean_fluxes |-> <<10>>, dpvals |-> [none |-> FALSE, rows |-> <<<<10>>>>]],
     [mean_fluxes |-> <<10, 20>>, dpvals |-> [none |-> FALSE, rows |-> <<<<10>>, <<20>>>>]]}

InitFlux ==
    /\ IdleNotFlux
    /\ snap_dir \in SimulationDirs
    /\ snap_result = <<>>
    /\ fv_args \in [pvals : FluxPoints, mf : MeanFluxTrials]
    /\ fv_result = <<>>

GetSnapshotList ==
    /\ snap_result = <<>>
    /\ snap_result' = get_snapshot_list(snap_dir)
    /\ UNCHANGED <<snap_dir, fv_args, fv_result>>
    /\ UNCHANGED notFlux

GetFluxVectors ==
    /\ fv_result = <<>>
    /\ fv_result' = get_flux_vectors(fv_args.pvals, fv_args.mf.mean_fluxes, fv_args.mf.dpvals)
    /\ UNCHANGED <<snap_dir, snap_result, fv_args>>
    /\ UNCHANGED notFlux

NextFlux == GetSnapshotList \/ GetFluxVectors

SpecFlux == InitFlux /\ [][NextFlux]_vars

\* C21: the training set get_flux_vectors builds has (#points) x (#trials)
\* rows; the parameter matrix and the flux vector matrix are both ordered
\* trial-major, point-minor; each parameter row is the mean flux coordinate
\* followed by the point; and row r of the two matrices is about the same
\* (trial, point) pair.
C21_Original ==
    fv_result # <<>> =>
        LET np == Len(fv_args.pvals)
            nt == Len(fv_args.mf.mean_fluxes)
            trial(r) == ((r - 1) \div np) + 1
            point(r) == ((r - 1) % np) + 1
        IN /\ fv_result.status = "returned"
           /\ Len(fv_result.aparams) = np * nt
           /\ Len(fv_result.flux_vectors) = np * nt
           /\ \A r \in 1..(np * nt) :
                 /\ fv_result.flux_vectors[r] =
                        <<fv_args.mf.mean_fluxes[trial(r)], fv_args.pvals[point(r)]>>
                 /\ fv_result.aparams[r] =
                        (IF fv_args.mf.dpvals.none THEN <<>>
                         ELSE fv_args.mf.dpvals.rows[trial(r)]) \o fv_args.pvals[point(r)]

\* C22: get_snapshot_list returns the spectra ordered by decreasing redshift
\* with exactly one spectrum for each expected redshift of zout, and fails
\* whenever the expected number of outputs is not found: a list it returns
\* has no expected redshift missing or twice.
C22_Original ==
    (snap_result # <<>> /\ snap_result.status = "returned") =>
        /\ Len(snap_result.spectrae) = Len(ZOut)
        /\ \A i \in 1..Len(ZOut) :
              AbsVal(snap_result.spectrae[i] - ZOut[i]) <= RedshiftTolerance

-----------------------------------------------------------------------------
(***************************************************************************)
(* lyman_data.BOSSData, likelihood.invert_block_diagonal_covariance and    *)
(* LikelihoodClass.get_BOSS_covariance_single_z / get_BOSS_covariance_full *)
(***************************************************************************)

\* The number of k bins of a redshift bin (35 in the tables) and the number of
\* redshift bins (12 in the tables).
BinSize == 2
NBins == 3

\* The redshifts of the bins of the table, lowest first, in units of 0.005:
\* the expected outputs of ZOut and one bin above them.
BossRedshifts == [bb \in 1..NBins |-> 800 + 40 * (bb - 1)]

\* A Python value used as an index: None, an int, or a float.
PyNone == [type |-> "None", val |-> 0]
PyInt(n) == [type |-> "int", val |-> n]
PyFloat(x) == [type |-> "float", val |-> x]

\* A matrix is the sequence of its rows.
Matrix(nrows, ncols, f(_, _)) == [i \in 1..nrows |-> [j \in 1..ncols |-> f(i, j)]]
Zeros(nrows, ncols) == Matrix(nrows, ncols, LAMBDA i, j : 0)

\* The block cct4b<bb>.dat: ones on the diagonal and the value c elsewhere.
CorrelationBlock(c) == Matrix(BinSize, BinSize, LAMBDA i, j : IF i = j THEN 1 ELSE c)

\* The columns 5 and 8 of the table, squared and added: one value per data point.
CovarDiagSet ==
    {[k \in 1..(NBins * BinSize) |-> 1],
     [k \in 1..(NBins * BinSize) |-> 1 + (k % 2)],
     [k \in 1..(NBins * BinSize) |-> k]}

\* m[rows, cols] = block, for the slices start:end of both axes.
SetBlock(m, start, block) ==
    [i \in 1..Len(m) |-> [j \in 1..Len(m[i]) |->
        IF i > start /\ i <= start + Len(block) /\ j > start /\ j <= start + Len(block)
        THEN block[i - start][j - start] ELSE m[i][j]]]

\* The loop of BOSSData.__init__ over the blocks, from block bb on.
RECURSIVE load_blocks(_, _, _)
load_blocks(covar, covar_bins, bb) ==
    IF bb > Len(covar_bins) THEN covar
    ELSE load_blocks(SetBlock(covar, BinSize * (bb - 1), covar_bins[bb]), covar_bins, bb + 1)

\* BOSSData.__init__(zmax = None): what it keeps of the files.
BOSSData(covar_bins, covar_diag) ==
    [redshifts |-> [k \in 1..(NBins * BinSize) |-> BossRedshifts[((k - 1) \div BinSize) + 1]],
     covar_diag |-> covar_diag,
     covar_bins |-> covar_bins,
     covar |-> load_blocks(Zeros(NBins * BinSize, NBins * BinSize), covar_bins, 1)]

\* matrix * vector as numpy broadcasts it: column j is multiplied by vector[j].
broadcast_multiply(m, v) == [i \in 1..Len(m) |-> [j \in 1..Len(m[i]) |-> m[i][j] * v[j]]]

\* BOSSData.get_covar(zbin): a list is indexed by an int only.
get_covar(b, zbin) ==
    IF zbin = PyNone
    THEN [status |-> "returned", value |-> broadcast_multiply(b.covar, b.covar_diag)]
    ELSE IF zbin.type # "int" THEN [status |-> "TypeError", value |-> <<>>]
    ELSE IF zbin.val >= Len(b.covar_bins) \/ zbin.val < 0 - Len(b.covar_bins)
    THEN [status |-> "IndexError", value |-> <<>>]
    ELSE LET bb == IF zbin.val >= 0 THEN zbin.val ELSE Len(b.covar_bins) + zbin.val
         IN [status |-> "returned",
             value |-> broadcast_multiply(b.covar_bins[bb + 1],
                          SubSeq(b.covar_diag, bb * BinSize + 1, (bb + 1) * BinSize))]

\* LikelihoodClass.get_BOSS_covariance_single_z(redshift), rescale_data_error
\* False: the redshift is a float entry of zout.
get_BOSS_covariance_single_z(b, redshift) == get_covar(b, redshift)

\* The loop of get_BOSS_covariance_full from redshift i of zout on.
RECURSIVE covariance_loop(_, _, _)
covariance_loop(b, covariance_full, i) ==
    IF i > Len(ZOut) THEN [status |-> "returned", value |-> covariance_full]
    ELSE LET block == get_BOSS_covariance_single_z(b, PyFloat(ZOut[i]))
         IN IF block.status # "returned" THEN block
            ELSE covariance_loop(b, SetBlock(covariance_full, (i - 1) * BinSize, block.value),
                                 i + 1)

\* LikelihoodClass.get_BOSS_covariance_full()
get_BOSS_covariance_full(b) ==
    covariance_loop(b, Zeros(Len(ZOut) * BinSize, Len(ZOut) * BinSize), 1)

\* The matrix without row i and column j.
Minor(m, i, j) ==
    [a \in 1..(Len(m) - 1) |-> [c \in 1..(Len(m) - 1) |->
        m[IF a < i THEN a ELSE a + 1][IF c < j THEN c ELSE c + 1]]]

Sign(k) == IF k % 2 = 0 THEN 1 ELSE 0 - 1

RECURSIVE Det(_)
Det(m) ==
    IF Len(m) = 1 THEN m[1][1]
    ELSE SumSeq([j \in 1..Len(m) |-> Sign(1 + j) * m[1][j] * Det(Minor(m, 1, j))])

\* npl.inv of a square block of integers: LinAlgError when it is singular.
inv(m) ==
    IF Det(m) = 0 THEN [status |-> "LinAlgError", value |-> <<>>]
    ELSE [status |-> "ok",
          value |-> Matrix(Len(m), Len(m),
                       LAMBDA i, j : IF Len(m) = 1 THEN Frac(1, Det(m))
                                     ELSE Frac(Sign(i + j) * Det(Minor(m, j, i)), Det(m)))]

\* full_covariance_matrix[start:end, start:end]
GetBlock(m, start, size) == Matrix(size, size, LAMBDA i, j : m[start + i][start + j])

\* The loop of invert_block_diagonal_covariance from block z on (z counts from 1).
RECURSIVE invert_loop(_, _, _, _)
invert_loop(full_covariance_matrix, inverse_covariance_matrix, nk, z) ==
    IF z * nk > Len(full_covariance_matrix) \/ nk = 0
    THEN [status |-> "returned", value |-> inverse_covariance_matrix]
    ELSE LET block == inv(GetBlock(full_covariance_matrix, nk * (z - 1), nk))
         IN IF block.status # "ok" THEN [status |-> block.status, value |-> <<>>]
            ELSE invert_loop(full_covariance_matrix,
                             SetBlock(inverse_covariance_matrix, nk * (z - 1), block.value),
                             nk, z + 1)

\* invert_block_diagonal_covariance(full_covariance_matrix, n_blocks)
invert_block_diagonal_covariance(full_covariance_matrix, n_blocks) ==
    LET n == Len(full_covariance_matrix)
        start == Matrix(n, n, LAMBDA i, j : FInt(0))
    IN invert_loop(full_covariance_matrix, start, n \div n_blocks, 1)

InitCov ==
    /\ IdleNotCov
    /\ \E cs \in [1..NBins -> {0, 1, 2}], covar_diag \in CovarDiagSet :
          boss = BOSSData([bb \in 1..NBins |-> CorrelationBlock(cs[bb])], covar_diag)
    /\ cov_op = "init"
    /\ cov_result = <<>>

\* One call of BOSSData.get_covar, for the whole table or for one bin.
GetCovar ==
    /\ cov_op = "init"
    /\ \E zbin \in {PyNone} \cup {PyInt(bb) : bb \in 0..(NBins - 1)} :
          /\ cov_op' = "get_covar"
          /\ cov_result' = [zbin |-> zbin, out |-> get_covar(boss, zbin)]
    /\ UNCHANGED boss
    /\ UNCHANGED notCov

GetBOSSCovarianceFull ==
    /\ cov_op = "init"
    /\ cov_op' = "get_BOSS_covariance_full"
    /\ cov_result' = [zbin |-> PyNone, out |-> get_BOSS_covariance_full(boss)]
    /\ UNCHANGED boss
    /\ UNCHANGED notCov

\* invert_block_diagonal_covariance on the matrix of the table, as it is or
\* with an entry outside the blocks set.
InvertBlockDiagonal ==
    /\ cov_op = "init"
    /\ \E off \in BOOLEAN :
          LET m == IF off THEN [boss.covar EXCEPT ![1][NBins * BinSize] = 1] ELSE boss.covar
          IN /\ cov_op' = "invert_block_diagonal_covariance"
             /\ cov_result' = [zbin |-> PyNone,
                               out |-> invert_block_diagonal_covariance(m, NBins)]
    /\ UNCHANGED boss
    /\ UNCHANGED notCov

NextCov == GetCovar \/ GetBOSSCovarianceFull \/ InvertBlockDiagonal

SpecCov == InitCov /\ [][NextCov]_vars

IsSymmetric(m) ==
    /\ \A i \in 1..Len(m) : Len(m[i]) = Len(m)
    /\ \A i, j \in 1..Len(m) : m[i][j] = m[j][i]

\* The entries of m outside its diagonal blocks of size nk are all zero.
ZeroOutsideBlocks(m, nk, zero) ==
    \A i, j \in 1..Len(m) : ((i - 1) \div nk) # ((j - 1) \div nk) => m[i][j] = zero

\* The covariance block the table holds for a redshift.
DatasetBlock(b, redshift) ==
    LET bb == CHOOSE k \in 1..NBins : BossRedshifts[k] = redshift
    IN get_covar(b, PyInt(bb - 1)).value

\* C23: the full covariance of the likelihood engine and the inverse made by
\* invert_block_diagonal_covariance are zero outside the diagonal blocks of
\* BinSize rows, and diagonal block i of the full covariance is the block of
\* the table for the redshift zout[i].
C23_Original ==
    /\ cov_op = "get_BOSS_covariance_full" =>
          /\ cov_result.out.status = "returned"
          /\ ZeroOutsideBlocks(cov_result.out.value, BinSize, 0)
          /\ \A i \in 1..Len(ZOut) :
                GetBlock(cov_result.out.value, (i - 1) * BinSize, BinSize)
                    = DatasetBlock(boss, ZOut[i])
    /\ (cov_op = "invert_block_diagonal_covariance" /\ cov_result.out.status = "returned") =>
          ZeroOutsideBlocks(cov_result.out.value, BinSize, FInt(0))

\* C30: BOSSData.get_covar returns a symmetric matrix, for the whole table and
\* for one bin, whenever the loaded correlation blocks are symmetric, whatever
\* the values of covar_diag.
C30_Original ==
    (/\ cov_op = "get_covar"
     /\ \A bb \in 1..NBins : IsSymmetric(boss.covar_bins[bb])) =>
        /\ cov_result.out.status = "returned"
        /\ IsSymmetric(cov_result.out.value)

-----------------------------------------------------------------------------
(***************************************************************************)
(* Emulator.build_dirname and the directory names written by               *)
(* generate_emulator_submissions                                           *)
(***************************************************************************)

\* Parameter values are integers in units of 0.0001. The values 1.2125, 1.2375
\* and 1.2625 are the centres of three cells of a design of four samples on
\* the limits [1.2, 1.3].
DirValues == {940, 960, 12125, 12375, 12500, 12625}

RECURSIVE NumDigits(_)
NumDigits(v) == IF v < 10 THEN 1 ELSE 1 + NumDigits(v \div 10)

RECURSIVE Pow10(_)
Pow10(k) == IF k = 0 THEN 1 ELSE 10 * Pow10(k - 1)

\* '%.<digits>g' % v: the value is rounded to the given number of significant
\* digits, a tie to the even digit, and the string written is the shortest
\* form of the rounded value, so the rounded value stands for the string.
format_g(digits, v) ==
    LET d == NumDigits(v)
        q == Pow10(d - digits)
        r == v % q
    IN IF d <= digits THEN v
       ELSE IF 2 * r > q \/ (2 * r = q /\ (v \div q) % 2 = 1) THEN v - r + q
       ELSE v - r

\* A name-to-index dictionary is the sequence of its items in insertion order.
LegacyNames == <<[nn |-> "HeliumHeatAmp", val |-> 0]>>
DirParamNames == {LegacyNames, <<[nn |-> "ns", val |-> 0], [nn |-> "As", val |-> 1]>>}

\* mf.dense_param_names: none for a constant mean flux, one for a mean flux
\* factor (its dense_limits have one row, likelihood.py:104).
DirDenseNames == {<<>>, <<[nn |-> "tau0", val |-> 0]>>}

\* The format of two significant digits for whatever names.
string_formatting_type_two(param_names) == 2

\* The number of significant digits of the format chosen by build_dirname.
string_formatting_type(param_names) == IF param_names = LegacyNames THEN 3 ELSE 2

\* for nn, val in items: parts[offset + val] = nn + format % params[offset + val],
\* from item k on; IndexError when the index is outside params or parts.
RECURSIVE set_parts(_, _, _, _, _, _)
set_parts(parts, items, k, offset, digits, params) ==
    IF k > Len(items) THEN [status |-> "ok", parts |-> parts]
    ELSE LET idx == offset + items[k].val
         IN IF idx >= Len(params) \/ idx >= Len(parts)
            THEN [status |-> "IndexError", parts |-> parts]
            ELSE set_parts([parts EXCEPT ![idx + 1] =
                               [nn |-> items[k].nn, value |-> format_g(digits, params[idx + 1])]],
                           items, k + 1, offset, digits, params)

\* Emulator.build_dirname(params, include_dense): the name is the sequence of
\* its parts, each a parameter name followed by a formatted value.
build_dirname(param_names, dense_param_names, params, include_dense) ==
    LET ndense == IF include_dense THEN Len(dense_param_names) ELSE 0
        empty == [k \in 1..(Len(param_names) + ndense) |-> [nn |-> "", value |-> 0]]
        digits == string_formatting_type(param_names)
        dense == set_parts(empty, dense_param_names, 1, 0, digits, params)
        sparse == set_parts(dense.parts, param_names, 1, ndense, digits, params)
    IN IF dense.status # "ok" THEN [status |-> dense.status, name |-> <<>>]
       ELSE IF sparse.status # "ok" THEN [status |-> sparse.status, name |-> <<>>]
       ELSE [status |-> "returned", name |-> sparse.parts]

\* The names of the format string of generate_emulator_submissions.
SubmissionNames == <<"ns", "As", "heat_slope", "heat_amp", "hub">>

\* '/ns%.2gAs%.2gheat_slope%.2gheat_amp%.2ghub%.2g' % tuple(simulation_parameters[i])
submission_dirname(params) ==
    IF Len(params) # Len(SubmissionNames) THEN [status |-> "TypeError", name |-> <<>>]
    ELSE [status |-> "returned",
          name |-> [k \in 1..Len(SubmissionNames) |->
                       [nn |-> SubmissionNames[k], value |-> format_g(2, params[k])]]]

\* A sample set of two distinct points of n coordinates.
SamplePairs(n, values) == {s \in [1..2 -> [1..n -> values]] : s[1] # s[2]}

InitDir ==
    /\ IdleNotDir
    /\ dir_args = <<>>
    /\ dir_result = <<>>

\* build_dirname on each point of a sample set.
BuildDirname ==
    /\ dir_args = <<>>
    /\ \E param_names \in DirParamNames, dense_param_names \in DirDenseNames, include_dense \in BOOLEAN :
          \E pair \in SamplePairs(Len(param_names) + (IF include_dense THEN Len(dense_param_names) ELSE 0), DirValues) :
             /\ dir_args' = [op |-> "build_dirname", param_names |-> param_names,
                             dense_param_names |-> dense_param_names,
                             include_dense |-> include_dense, samples |-> pair]
             /\ dir_result' = [k \in 1..2 |->
                                  build_dirname(param_names, dense_param_names, pair[k], include_dense)]
    /\ UNCHANGED notDir

\* The directories of generate_emulator_submissions for a sample set.
SubmissionDirnames ==
    /\ dir_args = <<>>
    /\ \E pair \in SamplePairs(Len(SubmissionNames), {12125, 12375}) :
          /\ dir_args' = [op |-> "generate_emulator_submissions", param_names |-> <<>>,
                          dense_param_names |-> <<>>, include_dense |-> FALSE,
                          samples |-> pair]
          /\ dir_result' = [k \in 1..2 |-> submission_dirname(pair[k])]
    /\ UNCHANGED notDir

NextDir == BuildDirname \/ SubmissionDirnames

SpecDir == InitDir /\ [][NextDir]_vars

\* The parts of the items of a dictionary, in the order of their indices.
PartsInIndexOrder(items, offset, digits, params) ==
    [k \in 1..Len(items) |->
        LET item == CHOOSE it \in Range(items) : it.val = k - 1
        IN [nn |-> item.nn, value |-> format_g(digits, params[offset + k])]]

\* C24: build_dirname returns the dense parts in the order of the dense indices
\* followed by the sparse parts in the order of the sparse indices, with 3
\* significant digits for the legacy names {'HeliumHeatAmp': 0} and 2
\* otherwise; without include_dense the name holds the sparse parts only.
C24_DirectoryName ==
    (dir_args # <<>> /\ dir_args.op = "build_dirname") =>
        \A k \in 1..2 :
           LET digits == IF dir_args.param_names = LegacyNames THEN 3 ELSE 2
               ndense == IF dir_args.include_dense THEN Len(dir_args.dense_param_names) ELSE 0
               dense == IF dir_args.include_dense
                        THEN PartsInIndexOrder(dir_args.dense_param_names, 0, digits,
                                               dir_args.samples[k])
                        ELSE <<>>
           IN /\ dir_result[k].status = "returned"
              /\ dir_result[k].name =
                    dense \o PartsInIndexOrder(dir_args.param_names, ndense, digits,
                                               dir_args.samples[k])

\* A legacy name with the dense part in front, of a value whose forms of two
\* and three digits differ.
C24_Witness ==
    /\ dir_args # <<>>
    /\ dir_args.op = "build_dirname"
    /\ dir_args.param_names = LegacyNames
    /\ dir_args.include_dense
    /\ dir_args.dense_param_names # <<>>
    /\ dir_args.samples[1] = <<960, 12375>>
    /\ dir_result[1] = [status |-> "returned",
                        name |-> <<[nn |-> "tau0", value |-> 960],
                                   [nn |-> "HeliumHeatAmp", value |-> 12400]>>]

\* C28: two distinct points of one sample set never get the same directory
\* name, from build_dirname or from generate_emulator_submissions.
C28_Original ==
    (dir_args # <<>> /\ dir_args.samples[1] # dir_args.samples[2]) =>
        dir_result[1] # dir_result[2]

\* C25: gen_simulations(nsamples) without explicit samples on an empty sample
\* set leaves sample_params holding exactly the new points, each of them once,
\* and runs the set-up once for each of them.
C25_Original ==
    [][(/\ emu_op' = "gen_simulations"
        /\ emu_err' = "ok"
        /\ Len(emu.sample_params.data) = 0) =>
           /\ emu'.sample_params.data = ic_call'.ran
           /\ \A i, j \in 1..Len(ic_call'.ran) : ic_call'.ran[i] = ic_call'.ran[j] => i = j]_vars

\* C26: the chain after the burn-in is one continuous run: the first round
\* starts from the positions at the end of the burn-in and every later round
\* from the positions at the end of the round before it.
C26_Original ==
    \A r \in 1..Len(run_starts) :
        run_starts[r] = [w \in 1..nwalkers |->
                            IF r = 1 THEN <<w, 0, 0>> ELSE <<w, r - 1, round_steps>>]

-----------------------------------------------------------------------------
(***************************************************************************)
(* likelihood.LikelihoodClass.acquisition_function_GP_UCB and              *)
(* _get_emulator_error_averaged_mean_flux                                  *)
(*                                                                         *)
(* acq records each reading of self.emulated_flux_power_std: the parameter *)
(* vector of the step, whether the likelihood call of the step queried the *)
(* surrogate, and the prediction the attribute held when it was read.      *)
(***************************************************************************)

\* n_samples of _get_emulator_error_averaged_mean_flux: the points of the grid
\* along each mean flux axis, 10 in the source.
n_samples == 4

\* np.linspace(start, stop, num = num)
linspace(start, stop, num) ==
    [k \in 1..num |-> FAdd(start, FDiv(FMul(FInt(k - 1), FSub(stop, start)), FInt(num - 1)))]

\* The limits of an engine with a mean flux slope: t0_slope, t0 and one
\* emulated parameter, or those of LikLimitsSet.
AcqLimitsSet(slope) ==
    LikLimitsSet(slope) \cup
        (IF slope
         THEN {<<<<Frac(-1, 4), Frac(1, 4)>>, <<Frac(3, 4), Frac(5, 4)>>, <<FInt(0), FInt(1)>>>>}
         ELSE {})

\* What the prediction gives in the calls of this component.
AcqOutputs == {<<Bin(0, 1)>>, <<Bin(-1, 1), Bin(0, 1)>>, <<Singular>>}

\* The attributes a likelihood call reads and writes.
LikState == [lik_params |-> lik_params, lik_result |-> lik_result, emulated |-> emulated,
             predict_calls |-> predict_calls, lik_calls |-> lik_calls]

\* self.likelihood(params) on the attributes st.
likelihood_call(st, params, param_limits, slope, bins) ==
    LET res == likelihood(params, param_limits, bins)
    IN [lik_params |-> params,
        lik_result |-> res,
        emulated |-> IF res.predicted
                     THEN [nparams |-> IF slope THEN Tail(params) ELSE params, bins |-> bins]
                     ELSE st.emulated,
        predict_calls |-> IF res.predicted THEN st.predict_calls + 1 ELSE st.predict_calls,
        lik_calls |-> st.lik_calls + 1]

\* A likelihood call at params followed by a reading of
\* self.emulated_flux_power_std[0]: an exception of the call passes on, and the
\* reading of an attribute never assigned raises AttributeError.
call_and_read(st, uses, params, param_limits, slope, bins) ==
    LET st1 == likelihood_call(st, params, param_limits, slope, bins)
    IN IF st1.lik_result.status # "returned"
       THEN [status |-> st1.lik_result.status, st |-> st1, uses |-> uses]
       ELSE IF st1.emulated = <<>>
       THEN [status |-> "AttributeError", st |-> st1, uses |-> uses]
       ELSE [status |-> "returned", st |-> st1,
             uses |-> Append(uses, [at |-> params, predicted |-> st1.lik_result.predicted,
                                    std |-> st1.emulated])]

\* acquisition_function_GP_UCB(params), up to the reading of the emulator error.
acquisition_function_GP_UCB(st, params, param_limits, slope, bins) ==
    call_and_read(st, <<>>, params, param_limits, slope, bins)

\* The loops of _get_emulator_error_averaged_mean_flux from grid point k on.
RECURSIVE averaged_loop(_, _, _, _, _, _, _)
averaged_loop(grid, k, st, uses, param_limits, slope, bins) ==
    IF k > Len(grid) THEN [status |-> "returned", st |-> st, uses |-> uses]
    ELSE LET step == call_and_read(st, uses, grid[k], param_limits, slope, bins)
         IN IF step.status # "returned" THEN step
            ELSE averaged_loop(grid, k + 1, step.st, step.uses, param_limits, slope, bins)

\* _get_emulator_error_averaged_mean_flux(params): dtau0 in the outer loop and
\* tau0 in the inner one, each over its limits with both ends.
get_emulator_error_averaged_mean_flux(st, params, param_limits, slope, bins) ==
    LET grid == Comprehension(linspace(param_limits[1][1], param_limits[1][2], n_samples),
                              linspace(param_limits[2][1], param_limits[2][2], n_samples),
                              LAMBDA dtau0, tau0 : <<dtau0, tau0>> \o params)
    IN averaged_loop(grid, 1, st, <<>>, param_limits, slope, bins)

InitAcq ==
    /\ IdleNotLik
    /\ IdleSamp
    /\ mf_slope \in BOOLEAN
    /\ lik_limits \in AcqLimitsSet(mf_slope)
    /\ lik_params = <<>>
    /\ lik_result = <<>>
    /\ emulated = <<>>
    /\ predict_calls = 0
    /\ lik_calls = 0

\* The attributes after an acquisition function, and what it read.
AcqResult(op, res) ==
    /\ acq' = [op |-> op, status |-> res.status, uses |-> res.uses]
    /\ lik_params' = res.st.lik_params
    /\ lik_result' = res.st.lik_result
    /\ emulated' = res.st.emulated
    /\ predict_calls' = res.st.predict_calls
    /\ lik_calls' = res.st.lik_calls
    /\ UNCHANGED <<lik_limits, mf_slope>>
    /\ UNCHANGED notAcq

\* A likelihood call before the acquisition function is evaluated.
EarlierLikelihood ==
    /\ acq = <<>>
    /\ lik_calls = 0
    /\ \E params \in ParamVectors(lik_limits), bins \in AcqOutputs :
          \E st \in {likelihood_call(LikState, params, lik_limits, mf_slope, bins)} :
             /\ lik_params' = st.lik_params
             /\ lik_result' = st.lik_result
             /\ emulated' = st.emulated
             /\ predict_calls' = st.predict_calls
             /\ lik_calls' = st.lik_calls
    /\ UNCHANGED <<lik_limits, mf_slope, acq>>
    /\ UNCHANGED notAcq

AcquisitionGPUCB ==
    /\ acq = <<>>
    /\ \E params \in ParamVectors(lik_limits), bins \in AcqOutputs :
          \E res \in {acquisition_function_GP_UCB(LikState, params, lik_limits, mf_slope, bins)} :
             AcqResult("acquisition_function_GP_UCB", res)

\* The average over the mean flux axes, for the emulated parameters after them.
AveragedMeanFlux ==
    /\ acq = <<>>
    /\ mf_slope
    /\ \E params \in ParamVectors(SubSeq(lik_limits, 3, Len(lik_limits))), bins \in AcqOutputs :
          \E res \in {get_emulator_error_averaged_mean_flux(LikState, params, lik_limits,
                                                            mf_slope, bins)} :
             AcqResult("_get_emulator_error_averaged_mean_flux", res)

NextAcq == EarlierLikelihood \/ AcquisitionGPUCB \/ AveragedMeanFlux

SpecAcq == InitAcq /\ [][NextAcq]_vars

\* C27: every emulator error an acquisition function reads was produced by the
\* prediction of that step, at the parameter vector of that step; it is never
\* one left by an earlier call, also not when the likelihood returns -inf
\* without a prediction.
C27_Original ==
    acq # <<>> =>
        \A k \in 1..Len(acq.uses) :
            /\ acq.uses[k].predicted
            /\ acq.uses[k].std.nparams =
                   IF mf_slope THEN Tail(acq.uses[k].at) ELSE acq.uses[k].at

-----------------------------------------------------------------------------
(***************************************************************************)
(* do_sampling followed by new_parameter_limits, check_for_refinement or   *)
(* refinement on the same LikelihoodClass object                           *)
(***************************************************************************)

\* The first statement of new_parameter_limits, check_for_refinement and
\* refinement once do_sampling has returned: the percentiles of self.flatchain.
\* do_sampling assigns self.cur_results and writes the savefile; it leaves
\* self.flatchain as it was, here never assigned.
RegionAfterSampling ==
    /\ samp_pc = "done"
    /\ npl_args = <<>>
    /\ \E caller \in {"new_parameter_limits", "check_for_refinement", "refinement"} :
          \E confidence \in ConfidenceSet, include_dense \in BOOLEAN :
             /\ caller = "check_for_refinement" => include_dense
             /\ caller = "refinement" => ~include_dense
             /\ npl_args' = [caller |-> caller, confidence |-> confidence,
                             include_dense |-> include_dense]
             /\ npl_result' = new_parameter_limits(flatchain_attr, confidence, include_dense,
                                                   mf_slope, DenseNames(mf_slope))
    /\ UNCHANGED <<flatchain_attr, ndense_names, cfr_pc, cfr_limits, cfr_first, cfr_prev,
                   cfr_iter, cfr_metric>>
    /\ UNCHANGED <<likVars, sampVars>>
    /\ UNCHANGED <<lhsVars, mmVars, mapVars, emuVars, extraVars>>

NextRegion == NextSampling \/ RegionAfterSampling

SpecRegion == InitSampling /\ [][NextRegion]_vars

\* C29: once do_sampling has completed, the attribute the region is computed
\* from holds the chain of that run, and new_parameter_limits,
\* check_for_refinement and refinement get their region from it without any
\* other step.
C29_Original ==
    (samp_pc = "done" /\ npl_args # <<>>) =>
        /\ flatchain_attr = flatchain(chain)
        /\ npl_result.status = "returned"

====
